---- MODULE Spec2Model ----
(***************************************************************************)
(* Model of app.py (image-filter-app): the log-reconciled decision engine. *)
(*                                                                         *)
(* Python values are modelled as follows.  A str is a sequence of          *)
(* one-character strings, so that strip() and lower() are computed and not *)
(* assumed.  None is the one-element tuple NONE.  A Drive file id is a     *)
(* positive integer and NoId (0) stands for None/"" where an id is         *)
(* expected.  A file name is a tuple <<prefix, k>>; the pair key           *)
(* "{hypo_id}|{adversarial_id}" is the tuple <<hypo_id, adversarial_id>>.  *)
(* A dict is a function whose DOMAIN is its key set.  A log blob is the    *)
(* sequence of its lines, each line the JSON object it holds.              *)
(***************************************************************************)
EXTENDS Integers, Sequences, FiniteSets, TLC

\* ------------------------------------------------------------------ bounds
MaxMeta == 2      \* records in the category's JSONL file
MaxLog == 3       \* lines a log may hold before Save is no longer offered
MaxIds == 5       \* Drive ids handed out to created shortcuts
MaxClock == 1     \* int(time.time()) ranges over 0..MaxClock
MaxLines == 2     \* lines of an input log of the reconciliation runs
MaxRecords == 5   \* records of the JSONL file in the resume runs
Epoch == 100      \* _now() when the session starts, in ticks of 0.02 s
MaxTicks == 40    \* ticks the clock of the button runs advances

\* ------------------------------------------------------------ Python values
NONE == <<"<None>">>
NoId == 0
EMPTY == <<>>
ACCEPTED == <<"a","c","c","e","p","t","e","d">>
REJECTED == <<"r","e","j","e","c","t","e","d">>

Truthy(x) == x # NONE /\ x # EMPTY
\* Python's  x or y
Or(x, y) == IF Truthy(x) THEN x ELSE y

IsSpace(c) == c \in {" ", "\t", "\n", "\r"}

RECURSIVE lstrip(_)
lstrip(s) == IF s # <<>> /\ IsSpace(Head(s)) THEN lstrip(Tail(s)) ELSE s

RECURSIVE rstrip(_)
rstrip(s) ==
  IF s # <<>> /\ IsSpace(s[Len(s)]) THEN rstrip(SubSeq(s, 1, Len(s) - 1)) ELSE s

\* str.strip()
strip(s) == rstrip(lstrip(s))

UPPER == <<"A","B","C","D","E","F","G","H","I","J","K","L","M",
           "N","O","P","Q","R","S","T","U","V","W","X","Y","Z">>
LOWER == <<"a","b","c","d","e","f","g","h","i","j","k","l","m",
           "n","o","p","q","r","s","t","u","v","w","x","y","z">>

ToLower == [c \in {UPPER[k] : k \in 1..Len(UPPER)} |->
              LOWER[CHOOSE k \in 1..Len(UPPER) : UPPER[k] = c]]

lowerChar(c) == IF c \in DOMAIN ToLower THEN ToLower[c] ELSE c

\* str.lower()
lower(s) == [k \in 1..Len(s) |-> lowerChar(s[k])]

\* canonical_user that trims and keeps the case.
canonical_user_cased(name) == strip(Or(name, EMPTY))

\* canonical_user: (name or "").strip().lower()
canonical_user(name) == lower(strip(Or(name, EMPTY)))

\* ------------------------------------------------------------- users, config
Subhadeep == <<"S","u","b","h","a","d","e","e","p">>
Gagan == <<"G","a","g","a","n">>
Robustness == <<"R","o","b","u","s","t","n","e","s","s">>

USERS ==
  (Subhadeep :> {"demography"}) @@
  (Gagan :> {"animal"}) @@
  (Robustness :> {"demography", "animal", "objects"})

\* The category whose logs are modelled; one session per user allowed in it.
Cat == "demography"
Sessions == {u \in DOMAIN USERS : Cat \in USERS[u]}

\* CAT[cat]: the Drive ids of the category's folders and logs, by role.
SrcFolders == {"src_hypo", "src_adv"}
DstFolders == {"dst_hypo", "dst_adv"}
LogIds == {"log_hypo", "log_adv"}

\* The category's JSONL file: record k-1 pairs image <<"h",k>> with <<"a",k>>.
META ==
  [k \in 1..MaxMeta |->
     [id |-> k - 1, hypo_id |-> <<"h", k>>, adversarial_id |-> <<"a", k>>]]

\* pk_of / the main view's pk: "{hypo_id}|{adversarial_id}"
pk_of(e) == <<e.hypo_id, e.adversarial_id>>

\* The main view's pk; "row_{i}" is the pair <<"row", i>>, <<"row", i>>, a key
\* no pair of identifiers gives.
PairKey(e, i) ==
  IF Truthy(e.hypo_id) \/ Truthy(e.adversarial_id) THEN pk_of(e)
  ELSE <<<<"row", i>>, <<"row", i>>>>

\* A clamp that wraps around the ends.
clamp_idx_wrap(idx, total_len) ==
  IF total_len <= 0 THEN 0 ELSE idx % total_len

clamp_idx(idx, total_len) ==
  IF total_len <= 0 THEN 0
  ELSE LET hi == total_len - 1
           lo == IF idx > 0 THEN idx ELSE 0
       IN IF lo < hi THEN lo ELSE hi

\* --------------------------------------------------------------- reconciler
\* A log line is the JSON object it holds; a line that is not valid JSON is
\* a record with the field malformed.
IsJson(ln) == "malformed" \notin DOMAIN ln

\* latest_rows that skips nothing.
latest_rows_all(jsonl_text) == jsonl_text

\* latest_rows: the parsed lines, malformed ones skipped
latest_rows(jsonl_text) == SelectSeq(jsonl_text, IsJson)

\* r.get("pair_key") or f"{r.get('hypo_id','')}|{r.get('adversarial_id','')}"
RowKey(r) ==
  Or(r.pair_key,
     <<IF r.hypo_id = NONE THEN EMPTY ELSE r.hypo_id,
       IF r.adversarial_id = NONE THEN EMPTY ELSE r.adversarial_id>>)

\* canonical_user(r.get("annotator") or r.get("_annotator_canon") or "")
RowAnnotator(r) == canonical_user(Or(Or(r.annotator, r.annotator_canon), EMPTY))

\* A dict assignment that keeps the value of a key already present.
DictSet_keep(m, k, v) == IF k \in DOMAIN m THEN m ELSE (k :> v) @@ m

\* m[pk] = r
DictSet(m, k, v) == (k :> v) @@ m

\* FoldRow with a first-wins fold: a key already in the map is kept.
FoldRow_first(m, r, who, target) ==
  LET pk == RowKey(r)
      ann0 == RowAnnotator(r)
      ann == IF Truthy(ann0) THEN ann0 ELSE target
      r1 == [r EXCEPT !.pair_key = pk,
                      !.annotator = IF Truthy(ann0) THEN @ ELSE who]
  IN IF ann = target /\ pk \notin DOMAIN m THEN DictSet(m, pk, r1) ELSE m

\* FoldRow that keeps every row, whoever its reviewer is.
FoldRow_anyone(m, r, who, target) ==
  DictSet(m, RowKey(r), [r EXCEPT !.pair_key = RowKey(r)])

\* FoldRow that keeps only the rows that name the target reviewer.
FoldRow_named(m, r, who, target) ==
  LET pk == RowKey(r)
      r1 == [r EXCEPT !.pair_key = pk]
  IN IF RowAnnotator(r) = target THEN DictSet(m, pk, r1) ELSE m

\* The loop body of load_latest_map_for_annotator for one row.
FoldRow(m, r, who, target) ==
  LET pk == RowKey(r)
      ann0 == RowAnnotator(r)
      ann == IF Truthy(ann0) THEN ann0 ELSE target
      r1 == [r EXCEPT !.pair_key = pk,
                      !.annotator = IF Truthy(ann0) THEN @ ELSE who]
  IN IF ann = target THEN DictSet(m, pk, r1) ELSE m

RECURSIVE FoldRows(_, _, _, _)
FoldRows(m, rows, who, target) ==
  IF rows = <<>> THEN m
  ELSE FoldRows(FoldRow(m, Head(rows), who, target), Tail(rows), who, target)

\* load_latest_map_for_annotator, on the text the read returned
load_latest_map_for_annotator(text, who) ==
  FoldRows(<<>>, latest_rows(text), who, canonical_user(who))

\* (m.get(pk, {}).get("status") or "").strip()
SavedStatus(m, pk) ==
  IF pk \in DOMAIN m THEN strip(Or(m[pk].status, EMPTY)) ELSE EMPTY

\* m.get(pk, {}).get("copied_id")
SavedCopied(m, pk) == IF pk \in DOMAIN m THEN m[pk].copied_id ELSE NoId

\* CompletedOf with "or" for "and": one decided side completes the pair.
CompletedOf_either(log_h_map, log_a_map) ==
  {pk \in (DOMAIN log_h_map) \cup (DOMAIN log_a_map) :
     Truthy(SavedStatus(log_h_map, pk)) \/ Truthy(SavedStatus(log_a_map, pk))}

\* build_completion_sets: the completed set, from the two latest-record maps
CompletedOf(log_h_map, log_a_map) ==
  {pk \in (DOMAIN log_h_map) \cup (DOMAIN log_a_map) :
     Truthy(SavedStatus(log_h_map, pk)) /\ Truthy(SavedStatus(log_a_map, pk))}

\* count_records_for_annotator, on the text the read returned
RECURSIVE CountRows(_, _)
CountRows(rows, who_c) ==
  IF rows = <<>> THEN 0
  ELSE LET ann0 == RowAnnotator(Head(rows))
           ann == IF Truthy(ann0) THEN ann0 ELSE who_c
       IN (IF ann = who_c THEN 1 ELSE 0) + CountRows(Tail(rows), who_c)

count_records_for_annotator(text, who) ==
  CountRows(latest_rows(text), canonical_user(who))

Min(a, b) == IF a < b THEN a ELSE b

\* first_undecided_index_from_counts that always answers 0.
first_undecided_index_from_counts_zero(meta_len, h, a) == 0

\* first_undecided_index_from_counts, on the two counts
first_undecided_index_from_counts(meta_len, h, a) ==
  IF meta_len <= 0 THEN 0 ELSE clamp_idx(Min(h, a), meta_len)

\* -------------------------------------------------------------------- state
VARIABLES
  log,                  \* Drive: log id -> the log blob's lines
  folders,              \* Drive: folder -> its files, each [id, name]
  nextId,               \* Drive: the id the next created file gets
  now,                  \* int(time.time())
  progress,             \* Drive: user -> text of progress_{user}_{cat}.txt
  cache_latest,         \* st.cache_data of load_latest_map_for_annotator
  cache_count,          \* st.cache_data of count_records_for_annotator
  idx,                  \* st.session_state.idx, per session
  dec,                  \* st.session_state.dec, per session
  idx_initialized_for,  \* st.session_state.idx_initialized_for, per session
  last_save_token,      \* st.session_state.last_save_token, per session
  last_save_flash,      \* st.session_state.last_save_flash, per session
  save_lock,            \* st.session_state._save_lock or .saving, per session
  meta,                 \* st.cache_data of load_meta: the records the runs work on
  world,                \* the users who sign in, and the limits of the exploration
  streak,               \* history: the save_now runs since the last other action
  only_saves,           \* history: every save_now run that reached Drive saved
  view,                 \* reconciliation runs: the last result computed
  text_cache,           \* _inproc_text_cache: file id -> text
  client,               \* store client: the Drive text operation in progress
  racers,               \* concurrent appends: session -> its client and cache
  jsonl,                \* the records file on Drive, as load_meta would read it now
  clicks,               \* safe_button: the clock and st.session_state's click times
  meta_cached           \* st.cache_data of load_meta holds an entry

drive == <<log, folders, nextId, progress>>
caches == <<cache_latest, cache_count>>
session == <<idx, dec, idx_initialized_for, last_save_token, last_save_flash,
             save_lock>>
vars == <<log, folders, nextId, now, progress, cache_latest, cache_count, idx, dec,
          idx_initialized_for, last_save_token, last_save_flash, save_lock, meta,
          world,
          streak, only_saves, view, text_cache, client,
                 racers,
                 jsonl,
                 clicks,
                 meta_cached>>

\* ------------------------------------------------------------ Drive helpers
File(id, name) == [id |-> id, name |-> name]

\* The possible results of find_file_id_in_folder: files[0] of the listing
\* (Drive lists same-named files in no stated order), None when there is no
\* match, no file name, or the listing fails.
find_file_id_in_folder(F, filename, fails) ==
  LET hits == {f \in F : f.name = filename}
  IN IF ~Truthy(filename) \/ fails \/ hits = {} THEN {NoId}
     ELSE {f.id : f \in hits}

\* delete_file_by_id that deletes nothing.
delete_file_by_id_noop(F, file_id, fails) == F

\* delete_file_by_id: the folder afterwards (a failed delete is swallowed)
delete_file_by_id(F, file_id, fails) ==
  IF file_id = NoId \/ fails THEN F ELSE {f \in F : f.id # file_id}

\* create_shortcut_to_file: [F |-> the folder afterwards, id |-> the result]
create_shortcut_to_file(F, src_file_id, new_name, new_id, fails) ==
  IF src_file_id = NoId \/ fails THEN [F |-> F, id |-> NoId]
  ELSE [F |-> F \cup {File(new_id, new_name)}, id |-> new_id]

\* AppendLines that writes the new lines alone, dropping the previous text.
AppendLines_overwrite(prev, new_lines) == new_lines

\* append_lines_to_drive_text when the read and the write succeed
AppendLines_keep(prev, new_lines) == prev

AppendLines(prev, new_lines) == prev \o new_lines

\* The faults a run may meet: the Drive calls that fail in it.
NoFaults == {}

\* The source folders: every image of META, or all but the first hypothesis.
SrcId(k, side) == MaxIds + 2 * k - (IF side = "hypo" THEN 1 ELSE 0)
SrcAll ==
  [f \in SrcFolders |->
     IF f = "src_hypo" THEN {File(SrcId(k, "hypo"), META[k].hypo_id) : k \in 1..MaxMeta}
     ELSE {File(SrcId(k, "adv"), META[k].adversarial_id) : k \in 1..MaxMeta}]
SrcMissing == [SrcAll EXCEPT !["src_hypo"] = {f \in @ : f.name # META[1].hypo_id}]

\* The configurations explored: who signs in, how many records the JSONL file
\* holds, the source folders, each reviewer's number of records at which
\* Save stops and the latest time on the clock.
Worlds ==
  {[users |-> {Subhadeep}, n |-> 1, src |-> w, cap |-> [u \in {Subhadeep} |-> MaxLog], tmax |-> MaxClock] :
     w \in {SrcAll, SrcMissing}}
  \cup {[users |-> {Subhadeep}, n |-> MaxMeta, src |-> SrcAll,
         cap |-> [u \in {Subhadeep} |-> MaxLog - 1],
         tmax |-> 0]}
  \cup {[users |-> Sessions, n |-> 1, src |-> SrcAll,
         cap |-> [u \in Sessions |-> IF u = Subhadeep THEN MaxLog - 1 ELSE MaxLog - 2],
         tmax |-> 0]}

\* streak: no save_now run since the last other action, or the run(s) since:
\* n = 1 after a run that saved, n = 2 after the run that followed it at once
\* for the same pair, user and statuses; baseH/baseA are the log lengths
\* before the first of them and msg the result of the last.
NoStreak == [n |-> 0]

\* The store client with no operation called yet in this script run.
NoText == [has |-> FALSE, text |-> <<>>]
NoResult == [kind |-> "none", value |-> <<>>]
Idle ==
  [op |-> "idle", phase |-> "done", i |-> 0, attempt |-> 0, text |-> <<>>,
   new_lines |-> <<>>, calls |-> 0, oks |-> 0, last |-> "", result |-> NoResult,
   seen |-> NoText, io_lock |-> FALSE]

NoFlash == [msg |-> "", ok |-> FALSE]

\* Times of safe_button are counted in ticks of 0.02 s.  Epoch is _now() when
\* the session starts, far from the 0.0 that stands for "never clicked".
\* clicks.last is _btn_last_click, clicks.until _global_cooldown_until, and
\* clicks.ret the value the last call of safe_button returned.
NoClicks == [now |-> Epoch, last |-> <<>>, until |-> 0, ret |-> FALSE]
Flash(msg, ok) == [msg |-> msg, ok |-> ok]

Init ==
  /\ log = [l \in LogIds |-> <<>>]
  /\ nextId = 1
  /\ now = 0
  /\ progress = <<>>
  /\ cache_latest = <<>>
  /\ cache_count = <<>>
  /\ idx = [u \in Sessions |-> 0]
  /\ dec = [u \in Sessions |-> <<>>]
  /\ idx_initialized_for = [u \in Sessions |-> ""]
  /\ last_save_token = [u \in Sessions |-> NONE]
  /\ last_save_flash = [u \in Sessions |-> NoFlash]
  /\ save_lock = [u \in Sessions |-> FALSE]
  /\ \E w \in Worlds :
       /\ world = [users |-> w.users, cap |-> w.cap, tmax |-> w.tmax]
       /\ meta = SubSeq(META, 1, w.n)
       /\ folders = [d \in DstFolders |-> {}] @@ w.src
  /\ streak = NoStreak
  /\ only_saves = TRUE
  /\ view = <<>>
  /\ text_cache = <<>>
  /\ client = Idle
  /\ racers = <<>>
  /\ jsonl = meta
  /\ clicks = NoClicks
  /\ meta_cached = TRUE

\* ----------------------------------------------------------------- page run
\* A cached read of the blobs L: the cached value when the key is cached, else
\* the function applied to the blob, and the cache with that entry added.
CountOf(c, L, lg, u) ==
  IF <<lg, u>> \in DOMAIN c THEN c[<<lg, u>>]
  ELSE count_records_for_annotator(L[lg], u)
CountFill(c, L, u) ==
  DictSet(DictSet(c, <<"log_hypo", u>>, CountOf(c, L, "log_hypo", u)),
          <<"log_adv", u>>, CountOf(c, L, "log_adv", u))

LatestOf(c, L, lg, u) ==
  IF <<lg, u>> \in DOMAIN c THEN c[<<lg, u>>]
  ELSE load_latest_map_for_annotator(L[lg], u)
LatestFill(c, L, u) ==
  DictSet(DictSet(c, <<"log_hypo", u>>, LatestOf(c, L, "log_hypo", u)),
          <<"log_adv", u>>, LatestOf(c, L, "log_adv", u))

\* build_completion_sets for user u through the cache c over the blobs L
build_completion_sets(c, L, u) ==
  LET log_h_map == LatestOf(c, L, "log_hypo", u)
      log_a_map == LatestOf(c, L, "log_adv", u)
  IN [completed |-> CompletedOf(log_h_map, log_a_map),
      log_h_map |-> log_h_map, log_a_map |-> log_a_map]

\* RunIdx that resumes at the index the progress file holds.
RunIdx_hinted(u) ==
  clamp_idx(IF idx_initialized_for[u] # Cat /\ u \in DOMAIN progress
            THEN progress[u] ELSE idx[u], Len(meta))

\* The index after the auto-jump on first load and the clamp.
RunIdx(u) ==
  LET meta_len == Len(meta)
      first == first_undecided_index_from_counts(
                 meta_len, CountOf(cache_count, log, "log_hypo", u),
                 CountOf(cache_count, log, "log_adv", u))
      idx0 == IF idx_initialized_for[u] # Cat THEN clamp_idx(first, meta_len)
              ELSE idx[u]
  IN clamp_idx(idx0, meta_len)

\* The left work area for index i: the pair shown, its saved state, and the
\* working decisions d with the pair's entry initialised from the saved state.
Shown(u, i, d) ==
  LET b == build_completion_sets(cache_latest, log, u)
      entry == meta[i + 1]
      pk == PairKey(entry, i)
      saved_h == Or(SavedStatus(b.log_h_map, pk), NONE)
      saved_a == Or(SavedStatus(b.log_a_map, pk), NONE)
  IN [i |-> i, entry |-> entry, pk |-> pk,
      completed_set |-> b.completed,
      saved_h |-> saved_h, saved_a |-> saved_a,
      saved_h_copied_id |-> SavedCopied(b.log_h_map, pk),
      saved_a_copied_id |-> SavedCopied(b.log_a_map, pk),
      dec |-> IF pk \in DOMAIN d THEN d
              ELSE DictSet(d, pk, [hypo |-> saved_h, adv |-> saved_a])]

\* One script run of session u up to the buttons.
Run(u) == Shown(u, RunIdx(u), dec[u])

\* What every script run of session u leaves behind, whatever was clicked.
SaveFrame(u) ==
  /\ idx_initialized_for' = [idx_initialized_for EXCEPT ![u] = Cat]
  /\ UNCHANGED <<world, view, text_cache, client, racers, jsonl,
                 clicks,
                 meta_cached>>

\* The same of a run that leaves the cache of load_meta alone.
RunFrame(u) == SaveFrame(u) /\ UNCHANGED meta

\* The two st.cache_data caches after a run of session u that clears neither.
CachesFilled(u) ==
  /\ cache_count' = CountFill(cache_count, log, u)
  /\ cache_latest' = LatestFill(cache_latest, log, u)

\* persist_pointer: the progress file is looked up, created holding "0" when
\* missing, then written.  When the lookup or creation fails nothing is
\* written; when the write fails the file keeps what it held.
persist_pointer(u, i, flt) ==
  progress' = IF "persist_find" \in flt THEN progress
              ELSE IF "persist_write" \in flt
              THEN IF u \in DOMAIN progress THEN progress
                   ELSE DictSet(progress, u, 0)
              ELSE DictSet(progress, u, IF i > 0 THEN i ELSE 0)

\* A run in which no handler acts: a widget other than the buttons below
\* changed, or safe_button turned the click down.
Rerun(u) ==
  LET r == Run(u)
  IN /\ RunFrame(u)
     /\ CachesFilled(u)
     /\ idx' = [idx EXCEPT ![u] = r.i]
     /\ dec' = [dec EXCEPT ![u] = r.dec]
     /\ streak' = NoStreak
     /\ UNCHANGED <<drive, now, last_save_token, last_save_flash, save_lock,
                    only_saves>>

\* Accept / Reject of one side: dec[pk][side] = status
Decide(u, side, status) ==
  LET r == Run(u)
  IN /\ RunFrame(u)
     /\ CachesFilled(u)
     /\ idx' = [idx EXCEPT ![u] = r.i]
     /\ dec' = [dec EXCEPT ![u] = [r.dec EXCEPT ![r.pk][side] = status]]
     /\ streak' = NoStreak
     /\ UNCHANGED <<drive, now, last_save_token, last_save_flash, save_lock,
                    only_saves>>

\* Prev (step = -1) and Next (step = 1): the index moves, the pointer is
\* persisted, and st.rerun() runs the script again for the new index.
navigate(u, step, flt) ==
  LET r == Run(u)
      j == clamp_idx(r.i + step, Len(meta))
      r2 == Shown(u, j, r.dec)
  IN /\ RunFrame(u)
     /\ CachesFilled(u)
     /\ idx' = [idx EXCEPT ![u] = j]
     /\ dec' = [dec EXCEPT ![u] = r2.dec]
     /\ persist_pointer(u, j, flt)
     /\ streak' = NoStreak
     /\ UNCHANGED <<log, folders, nextId, now, last_save_token, last_save_flash,
                    save_lock, only_saves>>

Navigate(u, step) == navigate(u, step, NoFaults)

\* ----------------------------------------------------------------- save_now
MsgUndecided == "Decide both sides before saving."
MsgAlready == "Already saved this exact decision."
MsgSaved == "Saved."
MsgAppendFailed == "Failed to append logs"

Decided(x) == x \in {ACCEPTED, REJECTED}

\* CanSave that looks at the hypothesis side alone.
CanSave_hypoOnly(cur_h, cur_a) == Decided(cur_h)

\* CanSave that looks at the adversarial side alone.
CanSave_advOnly(cur_h, cur_a) == Decided(cur_a)

\* The guard of save_now on the working decision.
CanSave(cur_h, cur_a) == Decided(cur_h) /\ Decided(cur_a)

\* delete_file_by_id(drive, prev_copied or find_file_id_in_folder(dst, name)):
\* the folders that may result.
DeleteOld(F, prev_copied, name, flt) ==
  {delete_file_by_id(F, t, "delete" \in flt) :
     t \in IF prev_copied # NoId THEN {prev_copied}
           ELSE find_file_id_in_folder(F, name, "find" \in flt)}

\* A maintenance that keeps the saved copied id when the side flips away
\* from accepted.
ShortcutStep_keep(F, saved, new_status, prev_copied, src_id, name, new_id, flt) ==
  IF new_status = ACCEPTED
  THEN {IF src_id # NoId
        THEN LET c == create_shortcut_to_file(G, src_id, name, new_id,
                                              "create" \in flt)
             IN [F |-> c.F, copied |-> c.id, made |-> 1]
        ELSE [F |-> G, copied |-> prev_copied, made |-> 0] :
        G \in DeleteOld(F, prev_copied, name, flt)}
  ELSE {[F |-> G, copied |-> prev_copied, made |-> 0] :
        G \in IF saved = ACCEPTED THEN DeleteOld(F, prev_copied, name, flt)
              ELSE {F}}

\* The flip-safe shortcut maintenance of one side: the outcomes
\* [F |-> destination folder, copied |-> new copied id, made |-> ids used].
ShortcutStep(F, saved, new_status, prev_copied, src_id, name, new_id, flt) ==
  LET afterFlip ==
        IF saved = ACCEPTED /\ new_status # ACCEPTED
        THEN {[F |-> G, copied |-> NoId] : G \in DeleteOld(F, prev_copied, name, flt)}
        ELSE {[F |-> F, copied |-> prev_copied]}
      accept(o) ==
        IF new_status = ACCEPTED
        THEN {IF src_id # NoId
              THEN LET c == create_shortcut_to_file(G, src_id, name, new_id,
                                                    "create" \in flt)
                   IN [F |-> c.F, copied |-> c.id, made |-> 1]
              ELSE [F |-> G, copied |-> o.copied, made |-> 0] :
              G \in DeleteOld(o.F, prev_copied, name, flt)}
        ELSE {[F |-> o.F, copied |-> o.copied, made |-> 0]}
  IN UNION {accept(o) : o \in afterFlip}

\* The record save_now builds for one side.
Rec(entry, pk, who, side, status, ts, copied) ==
  [id |-> entry.id, hypo_id |-> entry.hypo_id,
   adversarial_id |-> entry.adversarial_id,
   pair_key |-> pk, annotator |-> who, annotator_canon |-> canonical_user(who),
   side |-> side, status |-> status, decided_at |-> ts, copied_id |-> copied]

\* sha1 of the JSON of {pk, h, a, who}: the hashed content stands for the hash.
TokenOf(pk, h, a, who_canon) == <<pk, h, a, who_canon>>

\* AlreadySaved that never recognises a duplicate.
AlreadySaved_never(last_token, token) == FALSE

\* The duplicate-submit test: the token is that of the session's last save.
AlreadySaved(last_token, token) == last_token = token

\* The history after a save_now run of u with this token and result.
Noted(u, token, msg) ==
  IF streak.n = 1 /\ streak.who = u /\ streak.token = token
  THEN [streak EXCEPT !.n = 2, !.msg = msg]
  ELSE IF msg = MsgSaved
  THEN [n |-> 1, who |-> u, token |-> token, msg |-> msg,
        baseH |-> Len(log["log_hypo"]), baseA |-> Len(log["log_adv"])]
  ELSE NoStreak

\* append_lines_to_drive_text raises for the hypothesis log, or for the
\* adversarial log, when every remote call it makes fails.
AppendFaults == {"append_hypo", "append_adv"}

\* A lock released by the runs that ended well only.
LockAfter_saved(flash) == ~flash.ok

\* _save_lock and saving when save_now returns, whatever flash the run left:
\* the finally clause sets both to False.
LockAfter(flash) == FALSE

\* A token stored by every run, completed or not.
TokenAfter_always(last_token, token, saved) == token

\* st.session_state.last_save_token after a run of save_now: the token is
\* stored on the path that appended both records, and on no other.
TokenAfter(last_token, token, saved) == IF saved THEN token ELSE last_token

\* A clear() that leaves the cache as it is.
Cleared_kept(c) == c

\* load_latest_map_for_annotator.clear(), count_records_for_annotator.clear()
Cleared(c) == <<>>

\* A save_now that returns without leaving a result.
save_now_silent(u, flt, r) ==
  /\ RunFrame(u)
  /\ CachesFilled(u)
  /\ idx' = [idx EXCEPT ![u] = r.i]
  /\ dec' = [dec EXCEPT ![u] = r.dec]
  /\ streak' = NoStreak
  /\ UNCHANGED <<drive, now, last_save_token, last_save_flash, only_saves>>

\* The try block of save_now in session u, in the script run r, when the
\* Drive calls in flt fail.
save_now_try(u, flt, r) ==
  LET pk == r.pk
      cur_h == r.dec[pk].hypo
      cur_a == r.dec[pk].adv
      hypo_name == r.entry.hypo_id
      adv_name == r.entry.adversarial_id
      who_c == canonical_user(u)
      token == TokenOf(pk, cur_h, cur_a, who_c)
  IN /\ SaveFrame(u)
     /\ dec' = [dec EXCEPT ![u] = r.dec]
     /\ IF ~CanSave(cur_h, cur_a)
        THEN /\ last_save_flash' =
                  [last_save_flash EXCEPT ![u] = Flash(MsgUndecided, FALSE)]
             /\ CachesFilled(u)
             /\ idx' = [idx EXCEPT ![u] = r.i]
             /\ streak' = Noted(u, token, MsgUndecided)
             /\ last_save_token' =
                  [last_save_token EXCEPT ![u] = TokenAfter(@, token, FALSE)]
             /\ UNCHANGED <<drive, now, only_saves, meta>>
        ELSE \E src_h_id \in find_file_id_in_folder(folders["src_hypo"], hypo_name,
                                                     "find_src" \in flt),
                src_a_id \in find_file_id_in_folder(folders["src_adv"], adv_name,
                                                     "find_src" \in flt) :
             \E oh \in ShortcutStep(folders["dst_hypo"], r.saved_h, cur_h,
                                    r.saved_h_copied_id, src_h_id, hypo_name,
                                    nextId, flt) :
             \E oa \in ShortcutStep(folders["dst_adv"], r.saved_a, cur_a,
                                    r.saved_a_copied_id, src_a_id, adv_name,
                                    nextId + oh.made, flt) :
             \E ts \in {t \in {now, now + 1} : t <= world.tmax} :
               LET rec_h == Rec(r.entry, pk, u, "hypothesis", cur_h, ts, oh.copied)
                   rec_a == Rec(r.entry, pk, u, "adversarial", cur_a, ts, oa.copied)
                   meta_local == jsonl
                   j == clamp_idx(r.i + 1, Len(meta_local))
               IN /\ folders' = [folders EXCEPT !["dst_hypo"] = oh.F,
                                                !["dst_adv"] = oa.F]
                  /\ nextId' = nextId + oh.made + oa.made
                  /\ now' = ts
                  /\ IF AlreadySaved(last_save_token[u], token)
                     THEN /\ last_save_flash' =
                               [last_save_flash EXCEPT ![u] = Flash(MsgAlready, TRUE)]
                          /\ CachesFilled(u)
                          /\ idx' = [idx EXCEPT ![u] = r.i]
                          /\ streak' = Noted(u, token, MsgAlready)
                          /\ only_saves' = FALSE
                          /\ last_save_token' =
                               [last_save_token EXCEPT
                                  ![u] = TokenAfter(@, token, FALSE)]
                          /\ UNCHANGED <<log, progress, meta>>
                     ELSE IF flt \cap AppendFaults # {}
                     THEN /\ log' = IF "append_hypo" \in flt THEN log
                                    ELSE [log EXCEPT
                                            !["log_hypo"] = AppendLines(@, <<rec_h>>)]
                          /\ last_save_flash' =
                               [last_save_flash EXCEPT
                                  ![u] = Flash(MsgAppendFailed, FALSE)]
                          /\ CachesFilled(u)
                          /\ idx' = [idx EXCEPT ![u] = r.i]
                          /\ streak' = Noted(u, token, MsgAppendFailed)
                          /\ only_saves' = FALSE
                          /\ last_save_token' =
                               [last_save_token EXCEPT
                                  ![u] = TokenAfter(@, token, FALSE)]
                          /\ UNCHANGED <<progress, meta>>
                     ELSE /\ log' = [log EXCEPT
                                       !["log_hypo"] = AppendLines(@, <<rec_h>>),
                                       !["log_adv"] = AppendLines(@, <<rec_a>>)]
                          /\ cache_latest' = Cleared(cache_latest)
                          /\ cache_count' = Cleared(cache_count)
                          /\ meta' = meta_local
                          /\ last_save_token' =
                               [last_save_token EXCEPT
                                  ![u] = TokenAfter(@, token, TRUE)]
                          /\ idx' = [idx EXCEPT ![u] = j]
                          /\ persist_pointer(u, j, flt)
                          /\ last_save_flash' =
                               [last_save_flash EXCEPT ![u] = Flash(MsgSaved, TRUE)]
                          /\ streak' = Noted(u, token, MsgSaved)
                          /\ UNCHANGED only_saves

\* save_now: a run that finds the lock held returns at once; any other takes
\* the lock, runs the try block and releases the lock in the finally clause.
save_now(u, flt, r) ==
  IF save_lock[u]
  THEN /\ RunFrame(u)
       /\ CachesFilled(u)
       /\ idx' = [idx EXCEPT ![u] = r.i]
       /\ dec' = [dec EXCEPT ![u] = r.dec]
       /\ streak' = NoStreak
       /\ UNCHANGED <<drive, now, last_save_token, last_save_flash, save_lock,
                      only_saves>>
  ELSE /\ save_now_try(u, flt, r)
       /\ save_lock' = [save_lock EXCEPT ![u] = LockAfter(last_save_flash'[u])]

\* The Save button of session u: the script runs and save_now is called.
SaveNow(u, flt) == save_now(u, flt, Run(u))

\* --------------------------------------------------------- specification
Sides == {"hypo", "adv"}

\* Save is offered to a reviewer while the reviewer's records in each log and
\* the id supply are within the bounds.
WithinBounds(u) ==
  /\ Len(SelectSeq(log["log_hypo"], LAMBDA r : r.annotator = u)) < world.cap[u]
  /\ Len(SelectSeq(log["log_adv"], LAMBDA r : r.annotator = u)) < world.cap[u]
  /\ nextId + 1 <= MaxIds

Next ==
  \E u \in world.users :
    \/ Rerun(u)
    \/ \E side \in Sides, status \in {ACCEPTED, REJECTED} : Decide(u, side, status)
    \/ Navigate(u, -1)
    \/ Navigate(u, 1)
    \/ WithinBounds(u) /\ SaveNow(u, NoFaults)

Spec == Init /\ [][Next]_vars

\* ------------------------------------------------------ reconciliation runs
\* The reconciler applied to input logs: the hypothesis log holds lines of
\* pair 1 by either user or by nobody, the adversarial log lines of either
\* pair by the first user.
Line(e, who, side, status, ts) ==
  [id |-> e.id, hypo_id |-> e.hypo_id, adversarial_id |-> e.adversarial_id,
   pair_key |-> pk_of(e), annotator |-> who,
   annotator_canon |-> IF who = NONE THEN NONE ELSE canonical_user(who),
   side |-> side, status |-> status, decided_at |-> ts, copied_id |-> NoId]

\* A line cut short: the text of r without its end, which json.loads rejects.
Corrupt(r) == [malformed |-> TRUE] @@ r

HypoLines ==
  {Line(META[1], who, "hypothesis", st, ts) :
     who \in Sessions \cup {NONE}, st \in {ACCEPTED, <<" ">>}, ts \in {0, MaxClock}}
  \cup {Corrupt(Line(META[1], Subhadeep, "hypothesis", ACCEPTED, MaxClock))}
AdvLines ==
  {Line(META[k], Subhadeep, "adversarial", st, 0) :
     k \in {1, MaxMeta}, st \in {REJECTED, NONE}}

SeqsUpTo(S, n) == UNION {[1..m -> S] : m \in 0..n}

InitReconcile ==
  /\ log \in [LogIds -> SeqsUpTo(HypoLines \cup AdvLines, MaxLines)]
  /\ \A j \in 1..Len(log["log_hypo"]) : log["log_hypo"][j] \in HypoLines
  /\ \A j \in 1..Len(log["log_adv"]) : log["log_adv"][j] \in AdvLines
  /\ folders = [d \in DstFolders |-> {}] @@ SrcAll
  /\ nextId = 1
  /\ now = 0
  /\ progress = <<>>
  /\ cache_latest = <<>>
  /\ cache_count = <<>>
  /\ idx = [u \in Sessions |-> 0]
  /\ dec = [u \in Sessions |-> <<>>]
  /\ idx_initialized_for = [u \in Sessions |-> ""]
  /\ last_save_token = [u \in Sessions |-> NONE]
  /\ last_save_flash = [u \in Sessions |-> NoFlash]
  /\ save_lock = [u \in Sessions |-> FALSE]
  /\ world = [users |-> Sessions, cap |-> [u \in Sessions |-> 0], tmax |-> 0]
  /\ meta = META
  /\ streak = NoStreak
  /\ only_saves = TRUE
  /\ view = <<>>
  /\ text_cache = <<>>
  /\ client = Idle
  /\ racers = <<>>
  /\ jsonl = meta
  /\ clicks = NoClicks
  /\ meta_cached = TRUE

\* One uncached call of build_completion_sets for user who.
Reconcile(who) ==
  /\ view' = [who |-> who,
              count_h |-> count_records_for_annotator(log["log_hypo"], who),
              count_a |-> count_records_for_annotator(log["log_adv"], who)]
             @@ build_completion_sets(<<>>, log, who)
  /\ UNCHANGED <<drive, now, caches, session, meta, world, streak, only_saves,
                 text_cache, client,
                 racers,
                 jsonl,
                 clicks,
                 meta_cached>>

NextReconcile == \E who \in Sessions : Reconcile(who)

SpecReconcile == InitReconcile /\ [][NextReconcile]_vars

\* ------------------------------------------------------------- resume runs
\* The first load of a category over logs that earlier sessions left behind.
\* The JSONL file holds n records; each record has one of these histories:
\* never decided, both sides saved by Subhadeep, the hypothesis side alone,
\* both sides saved by Robustness, both sides saved twice by Subhadeep.
Records(n) ==
  [k \in 1..n |->
     [id |-> k - 1, hypo_id |-> <<"h", k>>, adversarial_id |-> <<"a", k>>]]

Profiles == {"none", "both", "hypo", "other", "twice"}

ProfileLines(e, p, side) ==
  CASE p = "none" -> <<>>
    [] p = "both" -> <<Line(e, Subhadeep, side, ACCEPTED, 0)>>
    [] p = "hypo" -> IF side = "hypothesis"
                     THEN <<Line(e, Subhadeep, side, REJECTED, 0)>> ELSE <<>>
    [] p = "other" -> <<Line(e, Robustness, side, ACCEPTED, 0)>>
    [] p = "twice" -> <<Line(e, Subhadeep, side, REJECTED, 0),
                        Line(e, Subhadeep, side, ACCEPTED, 0)>>

RECURSIVE ProfileLog(_, _, _, _)
ProfileLog(recs, prof, side, k) ==
  IF k > Len(recs) THEN <<>>
  ELSE ProfileLines(recs[k], prof[k], side) \o ProfileLog(recs, prof, side, k + 1)

InitResume ==
  /\ \E n \in 0..MaxRecords : \E prof \in [1..n -> Profiles] :
       /\ meta = Records(n)
       /\ log = [l \in LogIds |->
                   ProfileLog(Records(n), prof,
                              IF l = "log_hypo" THEN "hypothesis" ELSE "adversarial",
                              1)]
  /\ folders = [d \in DstFolders |-> {}] @@ SrcAll
  /\ nextId = 1
  /\ now = 0
  /\ progress = <<>>
  /\ cache_latest = <<>>
  /\ cache_count = <<>>
  /\ idx = [u \in Sessions |-> 0]
  /\ dec = [u \in Sessions |-> <<>>]
  /\ idx_initialized_for = [u \in Sessions |-> ""]
  /\ last_save_token = [u \in Sessions |-> NONE]
  /\ last_save_flash = [u \in Sessions |-> NoFlash]
  /\ save_lock = [u \in Sessions |-> FALSE]
  /\ world = [users |-> Sessions, cap |-> [u \in Sessions |-> 0], tmax |-> 0]
  /\ streak = NoStreak
  /\ only_saves = TRUE
  /\ view = <<>>
  /\ text_cache = <<>>
  /\ client = Idle
  /\ racers = <<>>
  /\ jsonl = meta
  /\ clicks = NoClicks
  /\ meta_cached = TRUE

\* The first script run of session u in the category: the auto-jump sets the
\* index; with no records the script stops at "No records.".
FirstLoad(u) ==
  /\ idx_initialized_for[u] # Cat
  /\ IF meta = <<>>
     THEN /\ idx' = [idx EXCEPT ![u] = RunIdx(u)]
          /\ idx_initialized_for' = [idx_initialized_for EXCEPT ![u] = Cat]
          /\ cache_count' = CountFill(cache_count, log, u)
          /\ UNCHANGED <<drive, now, cache_latest, dec, last_save_token,
                         last_save_flash, save_lock, meta, world, streak,
                         only_saves, view, text_cache, client,
                 racers,
                 jsonl,
                 clicks,
                 meta_cached>>
     ELSE Rerun(u)

NextResume == \E u \in world.users : FirstLoad(u)

SpecResume == InitResume /\ [][NextResume]_vars

\* ----------------------------------------------------- saves on a failing Drive
\* The page of one reviewer over one record, where one kind of Drive call
\* of a save may fail: the lookups in the destination and source folders, the
\* delete, the shortcut creation and the appends to the two logs.
FaultSets ==
  {{}} \cup {{f} : f \in {"find", "delete", "create", "find_src"} \cup AppendFaults}

InitFaults ==
  /\ log = [l \in LogIds |-> <<>>]
  /\ folders = [d \in DstFolders |-> {}] @@ SrcAll
  /\ nextId = 1
  /\ now = 0
  /\ progress = <<>>
  /\ cache_latest = <<>>
  /\ cache_count = <<>>
  /\ idx = [u \in Sessions |-> 0]
  /\ dec = [u \in Sessions |-> <<>>]
  /\ idx_initialized_for = [u \in Sessions |-> ""]
  /\ last_save_token = [u \in Sessions |-> NONE]
  /\ last_save_flash = [u \in Sessions |-> NoFlash]
  /\ save_lock = [u \in Sessions |-> FALSE]
  /\ world = [users |-> {Subhadeep}, cap |-> [u \in {Subhadeep} |-> MaxLog - 1],
              tmax |-> 0]
  /\ meta = SubSeq(META, 1, 1)
  /\ streak = NoStreak
  /\ only_saves = TRUE
  /\ view = <<>>
  /\ text_cache = <<>>
  /\ client = Idle
  /\ racers = <<>>
  /\ jsonl = meta
  /\ clicks = NoClicks
  /\ meta_cached = TRUE

NextFaults ==
  \E u \in world.users :
    \/ Rerun(u)
    \/ \E side \in Sides, status \in {ACCEPTED, REJECTED} : Decide(u, side, status)
    \/ Navigate(u, -1)
    \/ Navigate(u, 1)
    \/ \E flt \in FaultSets : WithinBounds(u) /\ SaveNow(u, flt)

SpecFaults == InitFaults /\ [][NextFaults]_vars

\* ------------------------------------------------------------ store client
\* read_text_from_drive, write_text_to_drive and append_lines_to_drive_text
\* on one blob, one remote call per step.  client.op is the operation called,
\* client.phase the loop it is in ("download": _download_bytes_with_retry,
\* "upload": write_text_to_drive, "done": returned or raised), client.i the
\* loop index, client.attempt the index of the read-modify-write attempt of
\* append_lines_to_drive_text (AppendRetries: the fallback write).  History:
\* calls and oks count the operation's remote calls, last is the outcome of
\* the latest, seen the text of the last successful read or write of the blob
\* in this script run, io_lock is st.session_state._io_lock.
ReadAttempts == 6
WriteAttempts == 4
AppendRetries == 3

StoreFile == "log_hypo"
Outcomes == {"ok", "transient", "auth", "not_found"}
Permanent == {"auth", "not_found"}

\* for i in range(attempts): index i is the last one
Exhausted_early(i, attempts) == i + 2 >= attempts

Exhausted(i, attempts) == i + 1 >= attempts

\* cached is not None, for cached = _inproc_text_cache.get(file_id)
Cached_never(cache, file) == FALSE

Cached(cache, file) == file \in DOMAIN cache

\* _inproc_text_cache.get(file_id, "")
CacheOrEmpty(cache, file) == IF file \in DOMAIN cache THEN cache[file] ELSE <<>>

\* An _io_lock released by the writes that succeeded only.
write_finally_ok(c) == IF c.last = "ok" THEN [c EXCEPT !.io_lock = FALSE] ELSE c

\* write_text_to_drive, finally clause: _io_lock is False when the call
\* returns or raises.
write_finally(c) == [c EXCEPT !.io_lock = FALSE]

Returned(c, v) == [c EXCEPT !.phase = "done", !.result = [kind |-> "ret", value |-> v]]
Raised(c) == [c EXCEPT !.phase = "done", !.result = [kind |-> "raise", value |-> <<>>]]

\* append_lines_to_drive_text after an attempt raised: the next attempt, or
\* after the last one the fallback write of cache + new lines.
AppendAgain(c, cache) ==
  IF ~Exhausted(c.attempt, AppendRetries)
  THEN [c EXCEPT !.attempt = @ + 1, !.phase = "download", !.i = 0]
  ELSE [c EXCEPT !.attempt = AppendRetries, !.phase = "upload", !.i = 0,
                 !.io_lock = TRUE,
                 !.text = AppendLines(CacheOrEmpty(cache, StoreFile), c.new_lines)]

\* read_text_from_drive returned text to its caller.
ReadReturned(c, text) ==
  IF c.op = "read" THEN Returned(c, text)
  ELSE [c EXCEPT !.phase = "upload", !.i = 0, !.io_lock = TRUE,
                 !.text = AppendLines(text, c.new_lines)]

\* _download_bytes_with_retry raised: read_text_from_drive returns the cached
\* text or raises again.
ReadFailed(c, cache) ==
  IF Cached(cache, StoreFile) THEN ReadReturned(c, cache[StoreFile])
  ELSE IF c.op = "read" THEN Raised(c)
  ELSE AppendAgain(c, cache)

\* write_text_to_drive raised.
WriteFailed(c, cache) ==
  IF c.op = "write" \/ c.attempt = AppendRetries THEN Raised(write_finally(c))
  ELSE AppendAgain(write_finally(c), cache)

Started(op, text, new_lines) ==
  [Idle EXCEPT !.op = op, !.phase = IF op = "write" THEN "upload" ELSE "download",
               !.text = text, !.new_lines = new_lines, !.seen = client.seen,
               !.io_lock = (op = "write")]

StoreFrame ==
  UNCHANGED <<folders, nextId, progress, caches, session, meta, world, streak,
              only_saves, view, racers,
                 jsonl,
                 clicks,
                 meta_cached>>

CallRead ==
  /\ client.phase = "done"
  /\ client' = Started("read", <<>>, <<>>)
  /\ UNCHANGED <<log, now, text_cache>>
  /\ StoreFrame

CallWrite ==
  /\ client.phase = "done"
  /\ client' = Started("write",
                       <<Line(META[1], Robustness, "hypothesis", REJECTED, 0)>>, <<>>)
  /\ UNCHANGED <<log, now, text_cache>>
  /\ StoreFrame

CallAppend(status) ==
  /\ client.phase = "done"
  /\ Len(log[StoreFile]) < MaxLog
  /\ now < MaxLog
  /\ client' = Started("append", <<>>,
                       <<Line(META[1], Subhadeep, "hypothesis", status, now)>>)
  /\ now' = now + 1
  /\ UNCHANGED <<log, text_cache>>
  /\ StoreFrame

\* One remote call of the loop the client is in, with its outcome.
RemoteCall(outcome) ==
  /\ client.phase # "done"
  /\ LET c == [client EXCEPT !.calls = @ + 1, !.last = outcome,
                             !.oks = IF outcome = "ok" THEN @ + 1 ELSE @]
         blob == log[StoreFile]
     IN IF c.phase = "download"
        THEN IF outcome = "ok"
             THEN /\ text_cache' = DictSet(text_cache, StoreFile, blob)
                  /\ client' = ReadReturned(
                                  [c EXCEPT !.seen = [has |-> TRUE, text |-> blob]],
                                  blob)
                  /\ UNCHANGED log
             ELSE /\ client' = IF ~Exhausted(c.i, ReadAttempts)
                               THEN [c EXCEPT !.i = @ + 1]
                               ELSE ReadFailed(c, text_cache)
                  /\ UNCHANGED <<log, text_cache>>
        ELSE IF outcome = "ok"
             THEN /\ log' = [log EXCEPT ![StoreFile] = c.text]
                  /\ text_cache' = DictSet(text_cache, StoreFile, c.text)
                  /\ client' = Returned(
                                  write_finally(
                                    [c EXCEPT !.seen = [has |-> TRUE, text |-> c.text]]),
                                  <<>>)
             ELSE /\ client' = IF ~Exhausted(c.i, WriteAttempts)
                               THEN [c EXCEPT !.i = @ + 1]
                               ELSE WriteFailed(c, text_cache)
                  /\ UNCHANGED <<log, text_cache>>
  /\ UNCHANGED now
  /\ StoreFrame

\* Another process appends a line to the blob while this one is at work.
OtherWrite ==
  /\ client.op = "idle" \/ client.phase # "done"
  /\ Len(log[StoreFile]) < MaxLog
  /\ log' = [log EXCEPT ![StoreFile] =
               @ \o <<Line(META[1], Robustness, "hypothesis", ACCEPTED, 0)>>]
  /\ UNCHANGED <<now, text_cache, client>>
  /\ StoreFrame

\* The script runs again: the module-level _inproc_text_cache is a new dict.
NewRun ==
  /\ client.phase = "done"
  /\ client.op # "idle"
  /\ text_cache' = <<>>
  /\ client' = Idle
  /\ UNCHANGED <<log, now>>
  /\ StoreFrame

InitStore ==
  /\ log = [l \in LogIds |-> <<>>]
  /\ folders = [d \in DstFolders |-> {}] @@ SrcAll
  /\ nextId = 1
  /\ now = 0
  /\ progress = <<>>
  /\ cache_latest = <<>>
  /\ cache_count = <<>>
  /\ idx = [u \in Sessions |-> 0]
  /\ dec = [u \in Sessions |-> <<>>]
  /\ idx_initialized_for = [u \in Sessions |-> ""]
  /\ last_save_token = [u \in Sessions |-> NONE]
  /\ last_save_flash = [u \in Sessions |-> NoFlash]
  /\ save_lock = [u \in Sessions |-> FALSE]
  /\ world = [users |-> Sessions, cap |-> [u \in Sessions |-> 0], tmax |-> 0]
  /\ meta = META
  /\ streak = NoStreak
  /\ only_saves = TRUE
  /\ view = <<>>
  /\ text_cache = <<>>
  /\ client = Idle
  /\ racers = <<>>
  /\ jsonl = meta
  /\ clicks = NoClicks
  /\ meta_cached = TRUE

NextStore ==
  \/ CallRead
  \/ CallWrite
  \/ \E status \in {ACCEPTED, REJECTED} : CallAppend(status)
  \/ \E outcome \in Outcomes : RemoteCall(outcome)
  \/ OtherWrite
  \/ NewRun

SpecStore == InitStore /\ [][NextStore]_vars

\* ----------------------------------------------------- spellings of a name
\* The reconciler applied for readers whose names are spelled in different
\* ways, to logs whose lines spell the names in different ways or name
\* nobody.
Shouted == <<"S","U","B","H","A","D","E","E","P">>
Spaced(s) == <<" ">> \o s \o <<"\t", " ">>
Spellings == {Subhadeep, lower(Subhadeep), Spaced(Shouted)}
Readers == Spellings \cup {Robustness}

NamedHypoLines ==
  {Line(META[1], who, "hypothesis", st, 0) :
     who \in Readers \cup {NONE}, st \in {ACCEPTED, REJECTED}}
NamedAdvLines ==
  {Line(META[k], who, "adversarial", ACCEPTED, 0) :
     k \in {1, MaxMeta}, who \in {Subhadeep, Spaced(Shouted)}}

InitNames ==
  /\ log \in [LogIds -> SeqsUpTo(NamedHypoLines \cup NamedAdvLines, MaxLines)]
  /\ \A j \in 1..Len(log["log_hypo"]) : log["log_hypo"][j] \in NamedHypoLines
  /\ \A j \in 1..Len(log["log_adv"]) : log["log_adv"][j] \in NamedAdvLines
  /\ folders = [d \in DstFolders |-> {}] @@ SrcAll
  /\ nextId = 1
  /\ now = 0
  /\ progress = <<>>
  /\ cache_latest = <<>>
  /\ cache_count = <<>>
  /\ idx = [u \in Sessions |-> 0]
  /\ dec = [u \in Sessions |-> <<>>]
  /\ idx_initialized_for = [u \in Sessions |-> ""]
  /\ last_save_token = [u \in Sessions |-> NONE]
  /\ last_save_flash = [u \in Sessions |-> NoFlash]
  /\ save_lock = [u \in Sessions |-> FALSE]
  /\ world = [users |-> Sessions, cap |-> [u \in Sessions |-> 0], tmax |-> 0]
  /\ meta = META
  /\ streak = NoStreak
  /\ only_saves = TRUE
  /\ view = <<>>
  /\ text_cache = <<>>
  /\ client = Idle
  /\ racers = <<>>
  /\ jsonl = meta
  /\ clicks = NoClicks
  /\ meta_cached = TRUE

NextNames == \E who \in Readers : Reconcile(who)

SpecNames == InitNames /\ [][NextNames]_vars

\* ------------------------------------------------------- the progress hint
\* The page of one reviewer over MaxMeta records, where the progress file
\* holds anything at the start, is changed by others at any time, and the
\* lookup or the write of persist_pointer may fail.
HintFaults == {{}, {"persist_find"}, {"persist_write"}}
Hints == {<<>>, Subhadeep :> 1, Subhadeep :> MaxMeta + 1}

HintChange(p) ==
  /\ p # progress
  /\ progress' = p
  /\ UNCHANGED <<log, folders, nextId, now, caches, session, meta, world, streak,
                 only_saves, view, text_cache, client, racers,
                 jsonl,
                 clicks,
                 meta_cached>>

InitHint ==
  /\ log = [l \in LogIds |-> <<>>]
  /\ folders = [d \in DstFolders |-> {}] @@ SrcAll
  /\ nextId = 1
  /\ now = 0
  /\ progress \in Hints
  /\ cache_latest = <<>>
  /\ cache_count = <<>>
  /\ idx = [u \in Sessions |-> 0]
  /\ dec = [u \in Sessions |-> <<>>]
  /\ idx_initialized_for = [u \in Sessions |-> ""]
  /\ last_save_token = [u \in Sessions |-> NONE]
  /\ last_save_flash = [u \in Sessions |-> NoFlash]
  /\ save_lock = [u \in Sessions |-> FALSE]
  /\ world = [users |-> {Subhadeep}, cap |-> [u \in {Subhadeep} |-> MaxLog - 2],
              tmax |-> 0]
  /\ meta = META
  /\ streak = NoStreak
  /\ only_saves = TRUE
  /\ view = <<>>
  /\ text_cache = <<>>
  /\ client = Idle
  /\ racers = <<>>
  /\ jsonl = meta
  /\ clicks = NoClicks
  /\ meta_cached = TRUE

NextHint ==
  \/ \E u \in world.users :
       \/ Rerun(u)
       \/ \E side \in Sides, status \in {ACCEPTED, REJECTED} : Decide(u, side, status)
       \/ \E flt \in HintFaults : navigate(u, -1, flt)
       \/ \E flt \in HintFaults : navigate(u, 1, flt)
       \/ \E flt \in HintFaults : WithinBounds(u) /\ SaveNow(u, flt)
  \/ \E p \in Hints : HintChange(p)

SpecHint == InitHint /\ [][NextHint]_vars

\* ------------------------------------------------------------ the index
\* rows_per_prompt(): st.secrets holds no other value than the default.
rows_per_prompt == 5

DIGITS == <<"0","1","2","3","4","5","6","7","8","9">>
IsDigit(c) == \E k \in 1..Len(DIGITS) : DIGITS[k] = c
DigitVal(c) == (CHOOSE k \in 1..Len(DIGITS) : DIGITS[k] = c) - 1

\* re.search(r"(\d+)$", s): the digits s ends with
RECURSIVE TrailingDigits(_)
TrailingDigits(s) ==
  IF s # <<>> /\ IsDigit(s[Len(s)])
  THEN Append(TrailingDigits(SubSeq(s, 1, Len(s) - 1)), s[Len(s)])
  ELSE <<>>

\* int() of a string of digits
RECURSIVE ToInt(_)
ToInt(ds) ==
  IF ds = <<>> THEN 0
  ELSE 10 * ToInt(SubSeq(ds, 1, Len(ds) - 1)) + DigitVal(ds[Len(ds)])

\* parse_prompt_number: the trailing integer; None, which is 0 here (no
\* prompt has that number), when there is none or it is not positive.
parse_prompt_number(prompt_id) ==
  IF ~Truthy(prompt_id) THEN 0
  ELSE LET m == TrailingDigits(strip(prompt_id))
       IN IF m = <<>> THEN 0 ELSE ToInt(m)

\* prompt_to_first_row_idx: the first row of prompt n, clamped to the records
prompt_to_first_row_idx(n, total_len) ==
  LET R == rows_per_prompt
      idx0 == (n - 1) * R
  IN IF total_len <= 0 THEN 0
     ELSE LET hi == total_len - 1
              lo == IF idx0 > 0 THEN idx0 ELSE 0
          IN IF lo < hi THEN lo ELSE hi

\* The "Go" button of Jump to Prompt with the text typed: pressed on a page an
\* earlier run rendered.  A text without a prompt number leaves a warning and
\* the run goes on; any other sets the index, persists the pointer, and
\* st.rerun() runs the script again, which clamps and shows the index.
JumpTo(u, text) ==
  LET n == parse_prompt_number(text)
      base_idx == prompt_to_first_row_idx(n, Len(meta))
      r2 == Shown(u, clamp_idx(base_idx, Len(meta)), dec[u])
  IN /\ idx_initialized_for[u] = Cat
     /\ IF n = 0 THEN Rerun(u)
        ELSE /\ RunFrame(u)
             /\ CachesFilled(u)
             /\ idx' = [idx EXCEPT ![u] = r2.i]
             /\ dec' = [dec EXCEPT ![u] = r2.dec]
             /\ persist_pointer(u, base_idx, NoFaults)
             /\ streak' = NoStreak
             /\ UNCHANGED <<log, folders, nextId, now, last_save_token,
                            last_save_flash, save_lock, only_saves>>

\* The category selectbox of a reviewer with several categories, turned to
\* the category modelled from another one in which nothing was saved: the
\* working decisions are dropped and the index is initialised again; the run
\* goes on through the auto-jump and the left work area.
CatSwitch(u) ==
  LET meta_init == meta
      first == first_undecided_index_from_counts(
                 Len(meta_init), CountOf(cache_count, log, "log_hypo", u),
                 CountOf(cache_count, log, "log_adv", u))
      r == Shown(u, clamp_idx(clamp_idx(first, Len(meta_init)), Len(meta)), <<>>)
  IN /\ Cardinality(USERS[u]) > 1
     /\ idx_initialized_for[u] = Cat
     /\ RunFrame(u)
     /\ CachesFilled(u)
     /\ idx' = [idx EXCEPT ![u] = r.i]
     /\ dec' = [dec EXCEPT ![u] = r.dec]
     /\ streak' = NoStreak
     /\ UNCHANGED <<drive, now, last_save_token, last_save_flash, save_lock,
                    only_saves>>

\* The records file is replaced on Drive by one with m records, fewer or
\* more; the cache of load_meta keeps what it holds.
RecordFiles == {SubSeq(META, 1, k) : k \in 1..MaxMeta}

JsonlChange(m) ==
  /\ m # jsonl
  /\ jsonl' = m
  /\ UNCHANGED <<drive, now, caches, session, meta, world, streak, only_saves,
                 view, text_cache, client, racers, clicks,
                 meta_cached>>

\* What is typed into the Jump to Prompt box.
JumpTexts ==
  {<<>>, <<"x">>, <<"0">>, <<"1">>, <<"d", "_", "2">>, <<"9", " ">>}

\* The pages of the two reviewers of the category over a records file that
\* changes length: one of them accepts sides and saves, at most once, and
\* the other moves through the records.
InitIndex ==
  /\ log = [l \in LogIds |-> <<>>]
  /\ folders = [d \in DstFolders |-> {}] @@ SrcAll
  /\ nextId = 1
  /\ now = 0
  /\ progress = <<>>
  /\ cache_latest = <<>>
  /\ cache_count = <<>>
  /\ idx = [u \in Sessions |-> 0]
  /\ dec = [u \in Sessions |-> <<>>]
  /\ idx_initialized_for = [u \in Sessions |-> ""]
  /\ last_save_token = [u \in Sessions |-> NONE]
  /\ last_save_flash = [u \in Sessions |-> NoFlash]
  /\ save_lock = [u \in Sessions |-> FALSE]
  /\ world = [users |-> Sessions,
              cap |-> [u \in Sessions |-> IF u = Robustness THEN MaxLog - 2 ELSE 0],
              tmax |-> 0]
  /\ meta \in RecordFiles
  /\ streak = NoStreak
  /\ only_saves = TRUE
  /\ view = <<>>
  /\ text_cache = <<>>
  /\ client = Idle
  /\ racers = <<>>
  /\ jsonl = meta
  /\ clicks = NoClicks
  /\ meta_cached = TRUE

NextIndex ==
  \/ \E u \in world.users :
       \/ Rerun(u)
       \/ \E side \in Sides : world.cap[u] > 0 /\ Decide(u, side, ACCEPTED)
       \/ Navigate(u, -1)
       \/ Navigate(u, 1)
       \/ WithinBounds(u) /\ SaveNow(u, NoFaults)
       \/ \E text \in JumpTexts : JumpTo(u, text)
       \/ CatSwitch(u)
  \/ \E m \in RecordFiles : JsonlChange(m)

SpecIndex == InitIndex /\ [][NextIndex]_vars

\* ----------------------------------------------------------- the buttons
\* min_interval and global_interval of the Prev and the "Go" button, in ticks.
Buttons ==
  ("prev" :> [min_interval |-> 25, global_interval |-> 20]) @@
  ("jump_go_btn" :> [min_interval |-> 40, global_interval |-> 25])

\* _jitter(base): the values base * (1 + uniform(-0.2, 0.2)) takes
Jitter(base) == {x \in 0..(2 * base) : 4 * base <= 5 * x /\ 5 * x <= 6 * base}

\* A deadline that looks at the button's own last click alone.
Deadline_button(last, min_jittered, global_until) == last + min_jittered

\* max(last + _jitter(min_interval), _global_cooldown_until)
Deadline(last, min_jittered, global_until) ==
  IF last + min_jittered > global_until THEN last + min_jittered
  ELSE global_until

ClickFrame ==
  UNCHANGED <<drive, now, caches, session, meta, world, streak, only_saves,
              view, text_cache, client, racers, jsonl, meta_cached>>

\* safe_button for a click of the button key.
safe_button(key) ==
  LET b == Buttons[key]
      t == clicks.now
      last == IF key \in DOMAIN clicks.last THEN clicks.last[key] ELSE 0
  IN /\ \E jm \in Jitter(b.min_interval) :
          IF t < Deadline(last, jm, clicks.until)
          THEN clicks' = [clicks EXCEPT !.ret = FALSE]
          ELSE \E jg \in Jitter(b.global_interval) :
                 clicks' = [clicks EXCEPT !.last = DictSet(@, key, t),
                                          !.until = t + jg, !.ret = TRUE]
     /\ ClickFrame

\* Time passes: one tick.
Tick ==
  /\ clicks.now + 1 <= Epoch + MaxTicks
  /\ clicks' = [clicks EXCEPT !.now = @ + 1]
  /\ ClickFrame

InitButton ==
  /\ log = [l \in LogIds |-> <<>>]
  /\ folders = [d \in DstFolders |-> {}] @@ SrcAll
  /\ nextId = 1
  /\ now = 0
  /\ progress = <<>>
  /\ cache_latest = <<>>
  /\ cache_count = <<>>
  /\ idx = [u \in Sessions |-> 0]
  /\ dec = [u \in Sessions |-> <<>>]
  /\ idx_initialized_for = [u \in Sessions |-> ""]
  /\ last_save_token = [u \in Sessions |-> NONE]
  /\ last_save_flash = [u \in Sessions |-> NoFlash]
  /\ save_lock = [u \in Sessions |-> FALSE]
  /\ world = [users |-> {Subhadeep}, cap |-> [u \in {Subhadeep} |-> 0], tmax |-> 0]
  /\ meta = META
  /\ streak = NoStreak
  /\ only_saves = TRUE
  /\ view = <<>>
  /\ text_cache = <<>>
  /\ client = Idle
  /\ racers = <<>>
  /\ jsonl = meta
  /\ clicks = NoClicks
  /\ meta_cached = TRUE

NextButton ==
  \/ \E key \in DOMAIN Buttons : safe_button(key)
  \/ Tick

SpecButton == InitButton /\ [][NextButton]_vars

\* ----------------------------------------------------------- cached reads
\* The reads of a page run of session u through st.cache_data, when the
\* Drive reads of the files in fails raise (no text of them is in the
\* in-process cache of a new run).  Each of the three functions catches the
\* exception and returns its empty result, which st.cache_data stores like
\* any other.  view is what the run works on.
ReadFiles == LogIds \cup {"jsonl_id"}

\* The value a cached function returns for key: the cached one, or the one
\* computed now: empty when the read fails.
CacheMiss(c, key, fails, empty, value) ==
  IF key \in DOMAIN c THEN c[key] ELSE IF fails THEN empty ELSE value

PageRead(u, fails) ==
  LET records == IF meta_cached THEN meta
                 ELSE IF "jsonl_id" \in fails THEN <<>> ELSE jsonl
      count(lg) == CacheMiss(cache_count, <<lg, u>>, lg \in fails, 0,
                             count_records_for_annotator(log[lg], u))
      latest(lg) == CacheMiss(cache_latest, <<lg, u>>, lg \in fails, <<>>,
                              load_latest_map_for_annotator(log[lg], u))
  IN /\ meta' = records
     /\ meta_cached' = TRUE
     /\ cache_count' = DictSet(DictSet(cache_count, <<"log_hypo", u>>, count("log_hypo")),
                               <<"log_adv", u>>, count("log_adv"))
     /\ cache_latest' =
          IF records = <<>> THEN cache_latest
          ELSE DictSet(DictSet(cache_latest, <<"log_hypo", u>>, latest("log_hypo")),
                       <<"log_adv", u>>, latest("log_adv"))
     /\ view' = [who |-> u, fails |-> fails, records |-> records,
                 done_h |-> count("log_hypo"), done_a |-> count("log_adv"),
                 stopped |-> records = <<>>,
                 log_h_map |-> IF records = <<>> THEN <<>> ELSE latest("log_hypo"),
                 log_a_map |-> IF records = <<>> THEN <<>> ELSE latest("log_adv")]
     /\ UNCHANGED <<drive, now, session, world, streak, only_saves, text_cache,
                    client, racers, jsonl, clicks>>

InitCached ==
  /\ log = [l \in LogIds |->
              <<Line(META[1], Subhadeep, IF l = "log_hypo" THEN "hypothesis"
                                         ELSE "adversarial", ACCEPTED, 0)>>]
  /\ folders = [d \in DstFolders |-> {}] @@ SrcAll
  /\ nextId = 1
  /\ now = 0
  /\ progress = <<>>
  /\ cache_latest = <<>>
  /\ cache_count = <<>>
  /\ idx = [u \in Sessions |-> 0]
  /\ dec = [u \in Sessions |-> <<>>]
  /\ idx_initialized_for = [u \in Sessions |-> ""]
  /\ last_save_token = [u \in Sessions |-> NONE]
  /\ last_save_flash = [u \in Sessions |-> NoFlash]
  /\ save_lock = [u \in Sessions |-> FALSE]
  /\ world = [users |-> Sessions, cap |-> [u \in Sessions |-> 0], tmax |-> 0]
  /\ meta = <<>>
  /\ streak = NoStreak
  /\ only_saves = TRUE
  /\ view = <<>>
  /\ text_cache = <<>>
  /\ client = Idle
  /\ racers = <<>>
  /\ jsonl = META
  /\ clicks = NoClicks
  /\ meta_cached = FALSE

NextCached == \E u \in world.users : \E fails \in SUBSET ReadFiles : PageRead(u, fails)

SpecCached == InitCached /\ [][NextCached]_vars

\* ------------------------------------------------------ records without key
\* The reconciler applied to logs whose lines were written for the records of
\* a JSONL file, with the pair key save_now writes or, as older lines, with
\* none.  The file holds a record with both item identifiers, one with
\* neither and one with the hypothesis identifier only.
KeyMeta ==
  <<[id |-> 0, hypo_id |-> <<"h", 1>>, adversarial_id |-> <<"a", 1>>],
    [id |-> 1, hypo_id |-> EMPTY, adversarial_id |-> EMPTY],
    [id |-> 2, hypo_id |-> <<"h", 3>>, adversarial_id |-> EMPTY]>>

\* The line for record k of KeyMeta, with its pair key or without.
KeyLine(k, side, status, keyed) ==
  [Line(KeyMeta[k], Subhadeep, side, status, 0) EXCEPT
     !.pair_key = IF keyed THEN PairKey(KeyMeta[k], k - 1) ELSE NONE]

KeyHypoLines ==
  {KeyLine(k, "hypothesis", st, keyed) :
     k \in 1..Len(KeyMeta), st \in {ACCEPTED, REJECTED}, keyed \in BOOLEAN}
KeyAdvLines ==
  {KeyLine(k, "adversarial", ACCEPTED, keyed) :
     k \in 1..Len(KeyMeta), keyed \in BOOLEAN}

InitKeys ==
  /\ log \in [LogIds -> SeqsUpTo(KeyHypoLines \cup KeyAdvLines, MaxLines)]
  /\ \A j \in 1..Len(log["log_hypo"]) : log["log_hypo"][j] \in KeyHypoLines
  /\ \A j \in 1..Len(log["log_adv"]) : log["log_adv"][j] \in KeyAdvLines
  /\ folders = [d \in DstFolders |-> {}] @@ SrcAll
  /\ nextId = 1
  /\ now = 0
  /\ progress = <<>>
  /\ cache_latest = <<>>
  /\ cache_count = <<>>
  /\ idx = [u \in Sessions |-> 0]
  /\ dec = [u \in Sessions |-> <<>>]
  /\ idx_initialized_for = [u \in Sessions |-> ""]
  /\ last_save_token = [u \in Sessions |-> NONE]
  /\ last_save_flash = [u \in Sessions |-> NoFlash]
  /\ save_lock = [u \in Sessions |-> FALSE]
  /\ world = [users |-> Sessions, cap |-> [u \in Sessions |-> 0], tmax |-> 0]
  /\ meta = KeyMeta
  /\ streak = NoStreak
  /\ only_saves = TRUE
  /\ view = <<>>
  /\ text_cache = <<>>
  /\ client = Idle
  /\ racers = <<>>
  /\ jsonl = meta
  /\ clicks = NoClicks
  /\ meta_cached = TRUE

NextKeys == \E who \in Sessions : Reconcile(who)

SpecKeys == InitKeys /\ [][NextKeys]_vars

\* ------------------------------------------------------- concurrent appends
\* Two sessions call append_lines_to_drive_text on the same log, once each,
\* each in its own script run with its own _inproc_text_cache and its own
\* session state (_io_lock).  Their remote calls interleave in any order and
\* any call of the first session may fail.  racers[u].c is the client of
\* session u, with the fields of the store client, and racers[u].cache its
\* text cache.
RaceOutcomes(u) == IF u = Subhadeep THEN {"ok", "transient"} ELSE {"ok"}

RaceLine(u) == Line(META[1], u, "hypothesis", ACCEPTED, 0)

RaceFrame ==
  UNCHANGED <<folders, nextId, now, progress, caches, session, meta, world,
              streak, only_saves, view, text_cache, client, jsonl,
                 clicks,
                 meta_cached>>

\* Session u calls append_lines_to_drive_text with its record.
RaceAppend(u) ==
  /\ racers[u].c.op = "idle"
  /\ racers' = [racers EXCEPT ![u].c =
                  [Idle EXCEPT !.op = "append", !.phase = "download",
                               !.new_lines = <<RaceLine(u)>>]]
  /\ UNCHANGED log
  /\ RaceFrame

\* One remote call of session u, with its outcome: a download of the blob as
\* it is now, or an upload that replaces the blob, whatever it is now, by the
\* text session u built.
RaceCall(u, outcome) ==
  /\ racers[u].c.phase # "done"
  /\ LET c == [racers[u].c EXCEPT !.calls = @ + 1, !.last = outcome,
                                  !.oks = IF outcome = "ok" THEN @ + 1 ELSE @]
         cache == racers[u].cache
         blob == log[StoreFile]
     IN IF c.phase = "download"
        THEN IF outcome = "ok"
             THEN /\ racers' = [racers EXCEPT ![u] =
                       [c |-> ReadReturned(
                                [c EXCEPT !.seen = [has |-> TRUE, text |-> blob]],
                                blob),
                        cache |-> DictSet(cache, StoreFile, blob)]]
                  /\ UNCHANGED log
             ELSE /\ racers' = [racers EXCEPT ![u].c =
                       IF ~Exhausted(c.i, ReadAttempts)
                       THEN [c EXCEPT !.i = @ + 1]
                       ELSE ReadFailed(c, cache)]
                  /\ UNCHANGED log
        ELSE IF outcome = "ok"
             THEN /\ log' = [log EXCEPT ![StoreFile] = c.text]
                  /\ racers' = [racers EXCEPT ![u] =
                       [c |-> Returned(
                                write_finally(
                                  [c EXCEPT !.seen = [has |-> TRUE, text |-> c.text]]),
                                <<>>),
                        cache |-> DictSet(cache, StoreFile, c.text)]]
             ELSE /\ racers' = [racers EXCEPT ![u].c =
                       IF ~Exhausted(c.i, WriteAttempts)
                       THEN [c EXCEPT !.i = @ + 1]
                       ELSE WriteFailed(c, cache)]
                  /\ UNCHANGED log
  /\ RaceFrame

InitRace ==
  /\ log \in {[l \in LogIds |-> <<>>],
               [l \in LogIds |->
                  IF l = StoreFile
                  THEN <<Line(META[MaxMeta], Subhadeep, "hypothesis", REJECTED, 0)>>
                  ELSE <<>>]}
  /\ folders = [d \in DstFolders |-> {}] @@ SrcAll
  /\ nextId = 1
  /\ now = 0
  /\ progress = <<>>
  /\ cache_latest = <<>>
  /\ cache_count = <<>>
  /\ idx = [u \in Sessions |-> 0]
  /\ dec = [u \in Sessions |-> <<>>]
  /\ idx_initialized_for = [u \in Sessions |-> ""]
  /\ last_save_token = [u \in Sessions |-> NONE]
  /\ last_save_flash = [u \in Sessions |-> NoFlash]
  /\ save_lock = [u \in Sessions |-> FALSE]
  /\ world = [users |-> Sessions, cap |-> [u \in Sessions |-> 0], tmax |-> 0]
  /\ meta = META
  /\ streak = NoStreak
  /\ only_saves = TRUE
  /\ view = <<>>
  /\ text_cache = <<>>
  /\ client = Idle
  /\ racers = [u \in Sessions |-> [c |-> Idle, cache |-> <<>>]]
  /\ jsonl = meta
  /\ clicks = NoClicks
  /\ meta_cached = TRUE

NextRace ==
  \E u \in Sessions :
    \/ RaceAppend(u)
    \/ \E outcome \in RaceOutcomes(u) : RaceCall(u, outcome)

SpecRace == InitRace /\ [][NextRace]_vars

\* ------------------------------------------------------- observed quantities
DstOf(side) == IF side = "hypo" THEN "dst_hypo" ELSE "dst_adv"
SrcOf(side) == IF side = "hypo" THEN "src_hypo" ELSE "src_adv"
LogOf(side) == IF side = "hypo" THEN "log_hypo" ELSE "log_adv"
NameOf(e, side) == IF side = "hypo" THEN e.hypo_id ELSE e.adversarial_id

\* The export artifacts of one side of record e in the destination folder.
Artifacts(e, side) == {f \in folders[DstOf(side)] : f.name = NameOf(e, side)}

SourceExists(e, side) == \E f \in folders[SrcOf(side)] : f.name = NameOf(e, side)

\* The lines of a side's log for pair pk, in log order.
HistOf(side, pk) == SelectSeq(log[LogOf(side)], LAMBDA r : r.pair_key = pk)

\* The latest persisted status of user u for one side of pair pk.
PersistedStatus(u, side, pk) ==
  SavedStatus(load_latest_map_for_annotator(log[LogOf(side)], u), pk)

\* What a read of the logs L by user u through the cache c returns as
\* completed pairs.
CompletedFor(c, L, u) == build_completion_sets(c, L, u).completed

\* The working decision save_now of session u would read.
Working(u) == Run(u).dec[Run(u).pk]
TokenNow(u) ==
  TokenOf(Run(u).pk, Working(u).hypo, Working(u).adv, canonical_user(u))

\* ------------------------------------------------------------------- claims

\* C1: when save_now runs twice in succession for the same pair, reviewer and
\* side statuses and the first run saved, the two runs together append exactly
\* one record to each log and the second reports "Already saved this exact
\* decision." with ok.
C1_IdempotentSave ==
  streak.n = 2 =>
    /\ streak.msg = MsgAlready
    /\ last_save_flash[streak.who] = Flash(MsgAlready, TRUE)
    /\ Len(log["log_hypo"]) = streak.baseH + 1
    /\ Len(log["log_adv"]) = streak.baseA + 1

C1_Witness == streak.n = 2 /\ streak.msg = MsgAlready

\* C2: a save_now run whose token equals last_save_token short-circuits first:
\* it deletes no export artifact, creates none and appends no log record.
C2_ShortCircuitBeforeIO ==
  [][\A u \in world.users :
       (SaveNow(u, NoFaults) /\ TokenNow(u) = last_save_token[u])
         => (folders' = folders /\ log' = log)]_vars

\* C3: for one reviewer and one side of one pair whose source item exists,
\* the saves accepted, rejected, accepted leave exactly one export artifact
\* for that side: the first artifact X is gone, and the artifact Y that exists
\* is new and is the one the last accepted record carries.
C3_FlipSafe ==
  \A u \in world.users, side \in Sides, k \in 1..Len(meta) :
    LET e == meta[k]
        pk == PairKey(e, k - 1)
        h == HistOf(side, pk)
    IN (/\ streak.n = 1 /\ streak.who = u /\ streak.token[1] = pk
        /\ only_saves
        /\ SourceExists(e, side)
        /\ Len(h) = 3
        /\ \A j \in 1..3 : h[j].annotator = u
        /\ h[1].status = ACCEPTED /\ h[2].status = REJECTED /\ h[3].status = ACCEPTED)
       => /\ h[1].copied_id # NoId
          /\ h[2].copied_id = NoId
          /\ h[3].copied_id # h[1].copied_id
          /\ Artifacts(e, side) = {File(h[3].copied_id, NameOf(e, side))}

C3_Witness ==
  \E u \in world.users, side \in Sides, k \in 1..Len(meta) :
    LET e == meta[k]
        pk == PairKey(e, k - 1)
        h == HistOf(side, pk)
    IN /\ streak.n = 1 /\ streak.who = u /\ streak.token[1] = pk
       /\ only_saves
       /\ SourceExists(e, side)
       /\ Len(h) = 3
       /\ \A j \in 1..3 : h[j].annotator = u
       /\ h[1].status = ACCEPTED /\ h[2].status = REJECTED /\ h[3].status = ACCEPTED
       /\ Cardinality(Artifacts(e, side)) = 1

\* C4: after any sequence of successful saves, by one reviewer or by several
\* one after another, the destination folder holds at most one export
\* artifact per (pairKey, side).
C4_AtMostOneArtifact ==
  only_saves =>
    \A side \in Sides, k \in 1..Len(meta) :
      Cardinality(Artifacts(meta[k], side)) <= 1

\* C5: with a single reviewer and existing source items, a side of a pair has
\* an export artifact iff the reviewer's latest persisted status for it is
\* accepted.
C5_ArtifactIffAccepted ==
  \A u \in world.users, side \in Sides, k \in 1..Len(meta) :
    (world.users = {u} /\ SourceExists(meta[k], side))
      => (Artifacts(meta[k], side) # {}
            <=> PersistedStatus(u, side, PairKey(meta[k], k - 1)) = ACCEPTED)

\* The lines of text a reader who attributes to itself: its own lines and the
\* lines that name no reviewer, for pair pk, as positions in the text.
Matching(text, who, pk) ==
  {j \in 1..Len(text) :
     /\ IsJson(text[j])
     /\ RowKey(text[j]) = pk
     /\ LET a == Or(Or(text[j].annotator, text[j].annotator_canon), EMPTY)
        IN \/ lower(strip(a)) = lower(strip(who))
           \/ \A c \in 1..Len(a) : IsSpace(a[c])}

LastOf(S) == CHOOSE j \in S : \A k \in S : k <= j

\* The fields of a line that the reconciler leaves as they are.
Payload(r) == <<r.status, r.decided_at, r.copied_id, r.side>>

NonBlank(x) == x # NONE /\ \E c \in 1..Len(x) : ~IsSpace(x[c])

\* C6: for lines of one (pairKey, reviewer, side) with pairwise distinct
\* timestamps, the reconciler returns the line with the greatest decided_at,
\* whatever the order of the lines.
C6_GreatestTimestampWins ==
  view # <<>> =>
    \A pk \in DOMAIN view.log_h_map :
      LET text == log["log_hypo"]
          M == Matching(text, view.who, pk)
      IN (/\ \A j \in M : text[j].annotator = view.who
          /\ \A j \in M, k \in M : j # k => text[j].decided_at # text[k].decided_at)
           => \A j \in M : text[j].decided_at <= view.log_h_map[pk].decided_at

\* C7: the reconciler folds the lines left to right: for each pairKey the
\* record returned is the last line in log order whose reviewer matches, so of
\* lines with equal timestamps the later one wins.
C7_LastLineWins ==
  view # <<>> =>
    LET text == log["log_hypo"]
        keys == {RowKey(text[j]) : j \in 1..Len(text)}
    IN /\ DOMAIN view.log_h_map = {pk \in keys : Matching(text, view.who, pk) # {}}
       /\ \A pk \in DOMAIN view.log_h_map :
            Payload(view.log_h_map[pk]) =
              Payload(text[LastOf(Matching(text, view.who, pk))])

C7_Witness ==
  /\ view # <<>>
  /\ LET text == log["log_hypo"]
     IN /\ Len(text) = 2
        /\ Matching(text, view.who, pk_of(META[1])) = {1, 2}
        /\ text[1].decided_at = text[2].decided_at
        /\ text[1].status # text[2].status
        /\ view.log_h_map[pk_of(META[1])].status = text[2].status

\* C8: a pairKey is in the completed set iff the reviewer's latest record in
\* the hypothesis log and in the adversarial log both have a status that is
\* non-empty after trimming; a pair decided on one side only is not completed.
C8_CompletedIffBothSides ==
  view # <<>> =>
    LET Latest(lg, pk) == log[lg][LastOf(Matching(log[lg], view.who, pk))]
        Has(lg, pk) == Matching(log[lg], view.who, pk) # {}
    IN \A k \in 1..Len(META) :
         LET pk == pk_of(META[k])
         IN pk \in view.completed
              <=> /\ Has("log_hypo", pk) /\ NonBlank(Latest("log_hypo", pk).status)
                  /\ Has("log_adv", pk) /\ NonBlank(Latest("log_adv", pk).status)

C8_Witness ==
  /\ view # <<>>
  /\ pk_of(META[1]) \in view.completed
  /\ pk_of(META[MaxMeta]) \in DOMAIN view.log_a_map
  /\ pk_of(META[MaxMeta]) \notin view.completed
  /\ Len(log["log_hypo"]) = 2

\* C9: a pair that is in completedPairs for reviewer R stays in it after every
\* later step: saves by R or by others never remove it.
C9_CompletionMonotone ==
  [][\A u \in world.users :
       CompletedFor(cache_latest, log, u) \subseteq CompletedFor(cache_latest', log', u)]_vars

C9_Witness ==
  \E u \in world.users :
    /\ CompletedFor(cache_latest, log, u) # {}
    /\ Len(log["log_hypo"]) >= 2
    /\ log["log_hypo"][1].annotator = u
    /\ log["log_hypo"][2].annotator # u

\* C10: when a side of the working decision is not accepted or rejected,
\* save_now stops before any I/O: no artifact is deleted or created, no record
\* is appended, last_save_token and the index stay, and the result is ok=false
\* with "Decide both sides before saving."
C10_UndecidedBlocksSave ==
  [][\A u \in world.users :
       (/\ SaveNow(u, NoFaults)
        /\ \/ Working(u).hypo \notin {ACCEPTED, REJECTED}
           \/ Working(u).adv \notin {ACCEPTED, REJECTED})
         => /\ folders' = folders /\ nextId' = nextId
            /\ log' = log /\ progress' = progress
            /\ last_save_token' = last_save_token
            /\ idx'[u] = RunIdx(u)
            /\ last_save_flash'[u] = Flash(MsgUndecided, FALSE)]_vars

C10_Witness ==
  \E u \in world.users : last_save_flash[u] = Flash(MsgUndecided, FALSE)

\* C11: every record save_now appends to either log has status accepted or
\* rejected; a record with an empty or null status is never appended.
C11_SavedStatusConcrete ==
  \A lg \in LogIds : \A j \in 1..Len(log[lg]) :
    log[lg][j].status \in {ACCEPTED, REJECTED}

C11_Witness ==
  /\ Len(log["log_hypo"]) >= 2 /\ Len(log["log_adv"]) >= 2
  /\ log["log_hypo"][1].status # log["log_hypo"][2].status

\* The indexes of the records whose pair is not completed for user u.
Undecided(u) ==
  {i \in 0..(Len(meta) - 1) :
     PairKey(meta[i + 1], i) \notin CompletedFor(<<>>, log, u)}

\* C12: on first load of a category the resume index is the index of the
\* first record, in sequence order, whose pairKey is not in the reviewer's
\* completedPairs.
C12_ResumeAtFirstUndecided ==
  \A u \in world.users :
    (idx_initialized_for[u] = Cat /\ Undecided(u) # {})
      => /\ idx[u] \in Undecided(u)
         /\ \A i \in Undecided(u) : idx[u] <= i

\* C13: the resume index is len(records)-1 when every record's pair is
\* completed for the reviewer, and 0 when the record sequence is empty.
C13_ResumeAtEnds ==
  \A u \in world.users :
    idx_initialized_for[u] = Cat
      => /\ meta = <<>> => idx[u] = 0
         /\ (meta # <<>> /\ Undecided(u) = {}) => idx[u] = Len(meta) - 1

C13_Witness ==
  \E u \in world.users :
    /\ idx_initialized_for[u] = Cat
    /\ Len(meta) = MaxRecords
    /\ Undecided(u) = {}
    /\ Len(log["log_hypo"]) > Len(meta)

\* C14: reconciling a log that holds lines that are not valid JSON gives the
\* same latest-record maps, the same completed pairs and the same record
\* counts as reconciling the log with those lines removed.
C14_MalformedLinesIgnored ==
  view # <<>> =>
    LET clean == [l \in LogIds |-> SelectSeq(log[l], IsJson)]
        b == build_completion_sets(<<>>, clean, view.who)
    IN /\ view.log_h_map = b.log_h_map
       /\ view.log_a_map = b.log_a_map
       /\ view.completed = b.completed
       /\ view.count_h = count_records_for_annotator(clean["log_hypo"], view.who)
       /\ view.count_a = count_records_for_annotator(clean["log_adv"], view.who)

C14_Witness ==
  /\ view # <<>>
  /\ view.who = Subhadeep
  /\ LET text == log["log_hypo"]
     IN /\ Len(text) = 2
        /\ IsJson(text[1]) /\ ~IsJson(text[2])
        /\ text[1].annotator = Subhadeep
        /\ text[1].status # text[2].status
        /\ view.count_h = 1
        /\ view.log_h_map[pk_of(META[1])].status = text[1].status

\* C15: against a backend that fails every call, read_text_from_drive makes
\* exactly ReadAttempts remote calls and then returns the cached text or
\* raises, and write_text_to_drive makes exactly WriteAttempts remote calls
\* and then raises; neither ever makes more calls than its budget.
C15_BoundedRetries ==
  /\ client.op = "read" => client.calls <= ReadAttempts
  /\ client.op = "write" => client.calls <= WriteAttempts
  /\ (client.op = "read" /\ client.phase = "done" /\ client.oks = 0) =>
       /\ client.calls = ReadAttempts
       /\ \/ client.result = [kind |-> "raise", value |-> <<>>]
          \/ /\ StoreFile \in DOMAIN text_cache
             /\ client.result = [kind |-> "ret", value |-> text_cache[StoreFile]]
  /\ (client.op = "write" /\ client.phase = "done" /\ client.oks = 0) =>
       /\ client.calls = WriteAttempts
       /\ client.result = [kind |-> "raise", value |-> <<>>]

C15_Witness ==
  /\ client.op = "write"
  /\ client.phase = "done"
  /\ client.oks = 0
  /\ client.calls = WriteAttempts
  /\ client.result.kind = "raise"

\* C16: the retry loops retry only on transient failures; after a remote call
\* of a read or a write failed with an authorization or a not-found error the
\* operation is over, with no further call.
C16_PermanentFailureNotRetried ==
  (client.op \in {"read", "write"} /\ client.last \in Permanent) =>
    client.phase = "done"

C20_AppendFallback ==
  /\ (client.op = "append" /\ client.attempt = AppendRetries
        /\ client.phase = "upload") =>
       client.text = CacheOrEmpty(text_cache, StoreFile) \o client.new_lines
  /\ (client.op = "append" /\ client.phase = "done") =>
       /\ client.result.kind \in {"ret", "raise"}
       /\ client.result.kind = "ret" <=> client.last = "ok"
       /\ client.result.kind = "ret" =>
            /\ Len(log[StoreFile]) >= Len(client.new_lines)
            /\ SubSeq(log[StoreFile],
                      Len(log[StoreFile]) - Len(client.new_lines) + 1,
                      Len(log[StoreFile])) = client.new_lines

C20_Witness ==
  /\ client.op = "append"
  /\ client.phase = "done"
  /\ client.attempt = AppendRetries
  /\ client.result.kind = "ret"
  /\ client.calls > AppendRetries * ReadAttempts

\* A save_now run of session u makes a Drive call of kind f in step 2: the
\* lookup in the destination folder when the saved record names no artifact,
\* the delete when there is an artifact to delete, the creation when the
\* side is accepted and its source image exists.
ArtifactOpCalled(u, f) ==
  LET r == Run(u)
      w == r.dec[r.pk]
  IN \E side \in Sides :
       LET copied == IF side = "hypo" THEN r.saved_h_copied_id
                     ELSE r.saved_a_copied_id
           saved == IF side = "hypo" THEN r.saved_h ELSE r.saved_a
           touched == w[side] = ACCEPTED \/ saved = ACCEPTED
       IN CASE f = "find" -> touched /\ copied = NoId
            [] f = "delete" ->
                 touched /\ (copied # NoId \/ Artifacts(r.entry, side) # {})
            [] f = "create" -> w[side] = ACCEPTED /\ SourceExists(r.entry, side)

\* C18: when an export-artifact operation of step 2 of save_now fails (the
\* destination-folder lookup, the delete of the old artifact or the creation
\* of the new one), the save aborts: the result is ok=false and no record is
\* appended to either log.
C18_ArtifactFailureAborts ==
  [][\A u \in world.users : \A f \in {"find", "delete", "create"} :
       (/\ SaveNow(u, {f})
        /\ CanSave(Working(u).hypo, Working(u).adv)
        /\ ArtifactOpCalled(u, f))
         => /\ log' = log
            /\ last_save_flash'[u].ok = FALSE]_vars

AppendReturned(u) ==
  racers[u].c.phase = "done" /\ racers[u].c.result.kind = "ret"
InBlob(u) == \E j \in 1..Len(log[StoreFile]) : log[StoreFile][j] = RaceLine(u)

\* C21: the append is an unguarded read-then-write: the text a session
\* uploads is what that session last read (or cached) followed by its record,
\* whatever the log holds by then, and nothing keeps another session from
\* writing in between; when an append returned and its record is not in the
\* log, the log is the text another session uploaded.  The witness is the
\* lost update: both appends returned and one record is missing.
C21_UnguardedReadThenWrite ==
  \A u \in Sessions :
    /\ racers[u].c.phase = "upload" =>
         racers[u].c.text =
           (IF racers[u].c.seen.has THEN racers[u].c.seen.text ELSE <<>>)
             \o racers[u].c.new_lines
    /\ (AppendReturned(u) /\ ~InBlob(u)) =>
         \E v \in Sessions \ {u} :
           /\ racers[v].c.oks > 0
           /\ log[StoreFile] = racers[v].c.text

C21_Witness ==
  /\ \A u \in Sessions : AppendReturned(u)
  /\ \E u \in Sessions : ~InBlob(u)

\* C22: after save_now returned "Saved." for pair pk, reviewer R and statuses
\* (h, a), the caches hold nothing older than the save: as long as that is
\* R's last save, a reconcile for R returns status h for pk from the
\* hypothesis log and status a from the adversarial log, and pk is in R's
\* completed pairs.
C22_SavedIsReadBack ==
  \A u \in world.users :
    last_save_token[u] # NONE =>
      LET pk == last_save_token[u][1]
          b == build_completion_sets(cache_latest, log, u)
      IN /\ SavedStatus(b.log_h_map, pk) = last_save_token[u][2]
         /\ SavedStatus(b.log_a_map, pk) = last_save_token[u][3]
         /\ pk \in b.completed

C22_Witness ==
  \E u \in world.users :
    /\ last_save_token[u] # NONE
    /\ Len(HistOf("hypo", last_save_token[u][1])) >= 2
    /\ HistOf("hypo", last_save_token[u][1])[1].annotator = u
    /\ HistOf("hypo", last_save_token[u][1])[2].annotator = u
    /\ HistOf("hypo", last_save_token[u][1])[1].status
         # HistOf("hypo", last_save_token[u][1])[2].status

\* The index of the first record whose pair is not completed for user u in
\* the logs L, or the last index when every pair is completed.
FirstNotCompleted(L, u) ==
  LET und == {i \in 0..(Len(meta) - 1) :
                PairKey(meta[i + 1], i) \notin CompletedFor(<<>>, L, u)}
  IN IF und = {} THEN Len(meta) - 1
     ELSE CHOOSE i \in und : \A j \in und : i <= j

\* C23: after a save that succeeded, the current index is the index of the
\* first record whose pair is not completed for the reviewer in the logs as
\* they are after the save, or the last index when all are completed.
C23_IndexRecomputedAfterSave ==
  [][\A u \in world.users :
       (SaveNow(u, NoFaults) /\ last_save_flash'[u] = Flash(MsgSaved, TRUE))
         => idx'[u] = FirstNotCompleted(log', u)]_vars

\* A line whose reviewer fields are both missing or empty.
Unattributed(r) == ~Truthy(r.annotator) /\ ~Truthy(r.annotator_canon)

\* C24: a log record whose annotator and _annotator_canon are missing or
\* empty counts as a record of the reviewer who reads: it is in that
\* reviewer's record count and, when it is the last of the reviewer's lines
\* for its pair, it is the pair's entry of the latest-record map, with the
\* reader as annotator.
C24_UnattributedIsReaders ==
  view # <<>> =>
    LET text == log["log_hypo"]
        valid == {j \in 1..Len(text) : IsJson(text[j])}
        mine == {j \in valid :
                   \/ Unattributed(text[j])
                   \/ RowAnnotator(text[j]) = canonical_user(view.who)}
    IN /\ view.count_h = Cardinality(mine)
       /\ \A j \in valid :
            Unattributed(text[j]) =>
              /\ RowKey(text[j]) \in DOMAIN view.log_h_map
              /\ (\A k \in mine : RowKey(text[k]) = RowKey(text[j]) => k <= j)
                   => /\ Payload(view.log_h_map[RowKey(text[j])]) = Payload(text[j])
                      /\ view.log_h_map[RowKey(text[j])].annotator = view.who

C24_Witness ==
  /\ view # <<>>
  /\ view.who = Robustness
  /\ LET text == log["log_hypo"]
     IN /\ Len(text) = 2
        /\ IsJson(text[1]) /\ text[1].annotator = Robustness
        /\ IsJson(text[2]) /\ Unattributed(text[2])
        /\ text[1].status # text[2].status
        /\ view.count_h = 2
        /\ view.log_h_map[pk_of(META[1])].status = text[2].status

\* The names that differ from the last reader's in case or surrounding
\* whitespace only.
SameReviewer == {w \in Readers : lower(strip(w)) = lower(strip(view.who))}

\* The decisions a latest-record map holds: per pair the status, timestamp,
\* artifact id and side.
Decisions(m) == [pk \in DOMAIN m |-> Payload(m[pk])]

\* C25 as stated: canonical_user is idempotent, and two reviewer names that
\* differ only in case or surrounding whitespace reconcile to the same
\* latest-record maps and the same completed pairs.
C25_SameMapsForSameName ==
  view # <<>> =>
    /\ \A w \in Readers : canonical_user(canonical_user(w)) = canonical_user(w)
    /\ \A w \in SameReviewer :
         LET b == build_completion_sets(<<>>, log, w)
         IN /\ b.log_h_map = view.log_h_map
            /\ b.log_a_map = view.log_a_map
            /\ b.completed = view.completed

\* C25 amended: canonical_user is idempotent, and two reviewer names that
\* differ only in case or surrounding whitespace reconcile to the same
\* completed pairs and to latest-record maps that hold the same decisions
\* for the same pairs.
C25_SameDecisionsForSameName ==
  view # <<>> =>
    /\ \A w \in Readers : canonical_user(canonical_user(w)) = canonical_user(w)
    /\ \A w \in SameReviewer :
         LET b == build_completion_sets(<<>>, log, w)
         IN /\ Decisions(b.log_h_map) = Decisions(view.log_h_map)
            /\ Decisions(b.log_a_map) = Decisions(view.log_a_map)
            /\ b.completed = view.completed

C25_Witness ==
  /\ view # <<>>
  /\ view.who = Spaced(Shouted)
  /\ Len(log["log_hypo"]) = 2
  /\ log["log_hypo"][1].annotator = Subhadeep
  /\ log["log_hypo"][2].annotator = lower(Subhadeep)
  /\ log["log_hypo"][1].status # log["log_hypo"][2].status
  /\ view.log_h_map[pk_of(META[1])].status = log["log_hypo"][2].status
  /\ pk_of(META[1]) \in view.completed

\* The key the main view and save_now compute for the record a line was
\* written for, and the line carrying that key.
ViewKey(r) == PairKey(meta[r.id + 1], r.id)
WithViewKey(r) == [r EXCEPT !.pair_key = ViewKey(r)]

\* C26: a log line without pair_key is keyed by the reconciler with the key
\* the main view and save_now compute for its record, so the logs reconcile
\* to the same maps and completed pairs as the same lines carrying that key.
C26_LegacyKeyIsViewKey ==
  view # <<>> =>
    LET keyed == [l \in LogIds |->
                    [j \in 1..Len(log[l]) |-> WithViewKey(log[l][j])]]
        b == build_completion_sets(<<>>, keyed, view.who)
    IN /\ \A l \in LogIds : \A j \in 1..Len(log[l]) :
            RowKey(log[l][j]) = ViewKey(log[l][j])
       /\ view.log_h_map = b.log_h_map
       /\ view.log_a_map = b.log_a_map
       /\ view.completed = b.completed

\* A line that names a reviewer other than who.
NamesOther(r, who) ==
  LET a == Or(Or(r.annotator, r.annotator_canon), EMPTY)
  IN NonBlank(a) /\ lower(strip(a)) # lower(strip(who))

\* C27: the reconciled state of reviewer R does not depend on the lines that
\* name another reviewer: the logs reconcile for R to the same latest-record
\* maps and the same completed pairs as the logs without those lines, so
\* logs that differ only in such lines reconcile alike.
C27_OthersLinesInvisible ==
  view # <<>> =>
    LET own == [l \in LogIds |->
                  SelectSeq(log[l], LAMBDA r : ~(IsJson(r) /\ NamesOther(r, view.who)))]
        b == build_completion_sets(<<>>, own, view.who)
    IN /\ view.log_h_map = b.log_h_map
       /\ view.log_a_map = b.log_a_map
       /\ view.completed = b.completed

C27_Witness ==
  /\ view # <<>>
  /\ view.who = Subhadeep
  /\ LET text == log["log_hypo"]
     IN /\ Len(text) = 2
        /\ IsJson(text[1]) /\ text[1].annotator = Subhadeep
        /\ IsJson(text[2]) /\ text[2].annotator = Robustness
        /\ text[1].status # text[2].status
        /\ text[1].decided_at < text[2].decided_at
        /\ view.log_h_map[pk_of(META[1])].status = text[1].status

\* C28: the progress file is a hint nothing depends on: a change of its
\* content changes neither the index the next run resumes or stays at nor the
\* reconciled state, and when persist_pointer fails the save still saves and
\* moves on, and Prev and Next still move the index.
C28_HintIsAdvisory ==
  [][/\ (\E p \in Hints : HintChange(p)) =>
          \A u \in world.users :
            /\ RunIdx(u)' = RunIdx(u)
            /\ idx'[u] = idx[u]
            /\ build_completion_sets(cache_latest', log', u)
                 = build_completion_sets(cache_latest, log, u)
     /\ \A u \in world.users : \A flt \in HintFaults :
          /\ (/\ SaveNow(u, flt)
              /\ CanSave(Working(u).hypo, Working(u).adv)
              /\ ~AlreadySaved(last_save_token[u], TokenNow(u)))
               => /\ last_save_flash'[u] = Flash(MsgSaved, TRUE)
                  /\ idx'[u] = clamp_idx(RunIdx(u) + 1, Len(jsonl))
                  /\ \A lg \in LogIds : Len(log'[lg]) = Len(log[lg]) + 1
          /\ \A step \in {-1, 1} :
               navigate(u, step, flt) =>
                 idx'[u] = clamp_idx(RunIdx(u) + step, Len(meta))]_vars

C28_Witness ==
  /\ last_save_flash[Subhadeep] = Flash(MsgSaved, TRUE)
  /\ idx[Subhadeep] = 1
  /\ Len(log["log_hypo"]) = 1
  /\ progress = Subhadeep :> MaxMeta + 1

\* C29: whenever the records are not empty, the index a run displays is
\* within 0..len(records)-1 in every state that first loads, Prev, Next,
\* Jump to Prompt, Save, category switches and changes of the records file
\* lead to, and so is the index each of these handlers leaves in the session;
\* Prev at index 0 and Next at the last index leave the index where it is, and
\* a Save that reports "Saved." at or past the last index of the records it
\* reloads leaves the index at that last index: where it is, when the file
\* did not change.  (Each of the last four lines says that no step that
\* leaves another index is a step of the handler.)
C29_IndexWithinRecords ==
  [][\A u \in world.users :
       LET i == RunIdx(u)
           last == Len(meta) - 1
           last_local == Len(jsonl) - 1
           saved == /\ SaveNow(u, NoFaults)
                    /\ CanSave(Working(u).hypo, Working(u).adv)
                    /\ ~AlreadySaved(last_save_token[u], TokenNow(u))
       IN /\ meta # <<>> => i \in 0..last
          /\ idx'[u] # idx[u] => idx'[u] \in 0..(Len(meta') - 1)
          /\ (i = 0 /\ idx'[u] # i) => ~Navigate(u, -1)
          /\ (i = last /\ idx'[u] # i) => ~Navigate(u, 1)
          /\ (i >= last_local /\ idx'[u] # last_local) => ~saved
          /\ (i = last /\ last_local = last /\ idx'[u] # i) => ~saved]_vars

\* The records got shorter under a session whose index was at the end: the
\* session still holds the old index, past the end, and a save was made at
\* the last index.
C29_Witness ==
  /\ Len(meta) = 1
  /\ \E u \in world.users :
       /\ idx[u] = MaxMeta - 1
       /\ idx[u] > Len(meta) - 1
       /\ idx_initialized_for[u] = Cat
       /\ \E v \in world.users \ {u} :
            last_save_flash[v] = Flash(MsgSaved, TRUE) /\ idx[v] = 0

\* C30: over the saves of a reviewer who signed in alone, with no store
\* failure and logs that hold only what save_now wrote, every log record
\* whose status is rejected carries no copied_id.
C30_RejectedHasNoArtifactId ==
  Cardinality(world.users) = 1 =>
    \A lg \in LogIds : \A k \in 1..Len(log[lg]) :
      log[lg][k].status = REJECTED => log[lg][k].copied_id = NoId

\* A side saved as accepted with a copied_id, then saved again as rejected.
C30_Witness ==
  /\ Cardinality(world.users) = 1
  /\ \E lg \in LogIds : \E k \in 1..Len(log[lg]) : \E j \in (k + 1)..Len(log[lg]) :
       /\ log[lg][k].pair_key = log[lg][j].pair_key
       /\ log[lg][k].status = ACCEPTED
       /\ log[lg][k].copied_id # NoId
       /\ log[lg][j].status = REJECTED
       /\ log[lg][j].copied_id = NoId

\* The text CallWrite writes.
Written == <<Line(META[1], Robustness, "hypothesis", REJECTED, 0)>>

\* C31: a successful write to the blob leaves in the local text cache, for
\* that id, exactly the text written, which is the text stored; the cache
\* holds at any time the text of the latest successful read or write of this
\* script run, so a read that falls back to the cache returns that text and
\* never one older than the write.
C31_CacheHoldsWritten ==
  [][/\ (client.phase = "upload" /\ client'.calls = client.calls + 1
           /\ client'.last = "ok")
          => /\ Cached(text_cache', StoreFile)
             /\ text_cache'[StoreFile] = client.text
             /\ log'[StoreFile] = client.text
     /\ client.seen.has
          => Cached(text_cache, StoreFile) /\ text_cache[StoreFile] = client.seen.text
     /\ (client.op = "read" /\ client.phase = "download" /\ client'.phase = "done"
           /\ client'.last # "ok" /\ client.seen.has)
          => client'.result = [kind |-> "ret", value |-> text_cache[StoreFile]]]_vars

\* A read fell back to the cache and returned the text written, while the
\* blob holds more since.
C31_Witness ==
  /\ client.op = "read"
  /\ client.phase = "done"
  /\ client.last # "ok"
  /\ client.calls = ReadAttempts
  /\ client.result = [kind |-> "ret", value |-> Written]
  /\ text_cache = StoreFile :> Written
  /\ Len(log[StoreFile]) > Len(Written)

\* A step in which safe_button accepted a click of the button key.
Accepted(key) ==
  /\ clicks'.ret
  /\ clicks'.now = clicks.now
  /\ key \in DOMAIN clicks'.last
  /\ clicks'.last[key] = clicks.now
  /\ clicks'.last # clicks.last \/ clicks'.until # clicks.until

\* C32: safe_button accepts a click only at or past the button's last
\* accepted click plus its jittered minimum interval (at least 0.8 times the
\* interval) and at or past the global deadline; an accepted click sets the
\* button's last-click time to now and the deadline to now plus the jittered
\* global interval and touches no other button's time; a rejected click
\* changes neither; so an accepted click comes at least 0.8 times the global
\* interval after every earlier accepted click, of any button.
C32_ClicksAreSpaced ==
  [][/\ \A key \in DOMAIN Buttons :
          Accepted(key) =>
            /\ clicks.now >= clicks.until
            /\ key \in DOMAIN clicks.last =>
                 5 * (clicks.now - clicks.last[key]) >= 4 * Buttons[key].min_interval
            /\ clicks'.until - clicks.now \in Jitter(Buttons[key].global_interval)
            /\ \A k \in DOMAIN clicks.last :
                 /\ k # key => clicks'.last[k] = clicks.last[k]
                 /\ 5 * (clicks.now - clicks.last[k]) >= 4 * Buttons[k].global_interval
     /\ (clicks'.now = clicks.now /\ ~clicks'.ret) =>
          clicks'.last = clicks.last /\ clicks'.until = clicks.until
     /\ (clicks'.last # clicks.last \/ clicks'.until # clicks.until) =>
          \E key \in DOMAIN Buttons : Accepted(key)]_vars

\* A click on one button is accepted exactly 0.8 times the global interval
\* after an accepted click on the other, and a click was rejected since.
C32_Witness ==
  /\ clicks.ret
  /\ DOMAIN clicks.last = DOMAIN Buttons
  /\ clicks.last["jump_go_btn"] = clicks.now
  /\ 5 * (clicks.now - clicks.last["prev"]) = 4 * Buttons["prev"].global_interval

\* The copied_id of the latest persisted record of user u for one side of
\* pair pk.
PersistedCopied(u, side, pk) ==
  SavedCopied(load_latest_map_for_annotator(log[LogOf(side)], u), pk)

\* C33: for a reviewer who works alone, whenever the latest persisted record
\* for a side of a pair is accepted and carries a copied_id, a file with that
\* id is in the side's destination folder.
C33_PersistedArtifactExists ==
  \A u \in world.users, side \in Sides, k \in 1..Len(meta) :
    LET pk == PairKey(meta[k], k - 1)
    IN (/\ world.users = {u}
        /\ PersistedStatus(u, side, pk) = ACCEPTED
        /\ PersistedCopied(u, side, pk) # NoId)
         => \E f \in folders[DstOf(side)] : f.id = PersistedCopied(u, side, pk)

\* No line of the other writer is in the text.
NoOtherWriter(text) ==
  \A j \in 1..Len(text) :
    text[j] # Line(META[1], Robustness, "hypothesis", ACCEPTED, 0)

\* C34: when append_lines_to_drive_text returns normally and no other writer
\* wrote to the log (a line of another writer would be in the log right
\* before the write that ends the call), the stored text is the text stored
\* before followed by the new lines.
C34_AppendKeepsLog ==
  [][(/\ client.op = "append"
      /\ client.phase = "upload"
      /\ client'.phase = "done"
      /\ client'.result.kind = "ret"
      /\ NoOtherWriter(log[StoreFile]))
       => log'[StoreFile] = log[StoreFile] \o client.new_lines]_vars

\* The records of reviewer u for pair pk in the log lg.
RecordsOf(lg, u, pk) ==
  SelectSeq(log[lg], LAMBDA r : r.pair_key = pk /\ r.annotator = u)

\* C35: after any sequence of saves, whatever Drive calls failed, the
\* hypothesis log and the adversarial log hold the same number of records for
\* each pair and reviewer.
C35_LogsInStep ==
  \A u \in world.users, k \in 1..Len(meta) :
    Len(RecordsOf("log_hypo", u, PairKey(meta[k], k - 1)))
      = Len(RecordsOf("log_adv", u, PairKey(meta[k], k - 1)))

\* C36: a page run in which no read fails works on the stored contents: the
\* records of the file, the reviewer's record counts and latest-record maps
\* of the two logs, whatever reads failed in earlier runs.
C36_RecoveredRunSeesStore ==
  (view # <<>> /\ view.fails = {}) =>
    /\ view.records = jsonl
    /\ view.done_h = count_records_for_annotator(log["log_hypo"], view.who)
    /\ view.done_a = count_records_for_annotator(log["log_adv"], view.who)
    /\ view.log_h_map = load_latest_map_for_annotator(log["log_hypo"], view.who)
    /\ view.log_a_map = load_latest_map_for_annotator(log["log_adv"], view.who)

\* completed = min(done_h, done_a) of the metrics, read from the logs as
\* they are.
CompletedYou(u) ==
  Min(count_records_for_annotator(log["log_hypo"], u),
      count_records_for_annotator(log["log_adv"], u))

\* C37: after any sequence of saves the "Completed (you)" count is the
\* number of pairs in the reviewer's completedPairs, and the index a first
\* load resumes at is that number, clamped to the records.
C37_CompletedCountIsPairs ==
  \A u \in world.users :
    /\ CompletedYou(u) = Cardinality(CompletedFor(<<>>, log, u))
    /\ first_undecided_index_from_counts(
         Len(meta), count_records_for_annotator(log["log_hypo"], u),
         count_records_for_annotator(log["log_adv"], u))
         = clamp_idx(Cardinality(CompletedFor(<<>>, log, u)), Len(meta))

\* C38: last_save_token changes only in a step that appends a record to both
\* logs and reports "Saved."; a run of save_now that ends otherwise
\* (undecided side, duplicate token, failed append, whatever Drive call
\* failed) leaves last_save_token as it was and the index at the record
\* shown; after a failed append the token of the decision is not the stored
\* one, so saving it again is not answered "Already saved".
C38_TokenOnlyOnSuccess ==
  [][\A u \in world.users :
       /\ last_save_token'[u] # last_save_token[u]
            => /\ \A lg \in LogIds : Len(log'[lg]) = Len(log[lg]) + 1
               /\ last_save_flash'[u] = Flash(MsgSaved, TRUE)
       /\ \A flt \in FaultSets :
            (SaveNow(u, flt) /\ last_save_flash'[u] # Flash(MsgSaved, TRUE))
              => /\ last_save_token'[u] = last_save_token[u]
                 /\ idx'[u] = RunIdx(u)
                 /\ last_save_flash'[u] = Flash(MsgAppendFailed, FALSE)
                      => ~AlreadySaved(last_save_token'[u], TokenNow(u))]_vars

\* A save whose adversarial append failed was repeated and completed.
C38_Witness ==
  \E u \in world.users :
    /\ last_save_flash[u] = Flash(MsgSaved, TRUE)
    /\ last_save_token[u] # NONE
    /\ Len(log["log_hypo"]) = Len(log["log_adv"]) + 1
    /\ Len(log["log_adv"]) = 1

C39_WriteRaised ==
  /\ client.op = "write"
  /\ client.phase = "done"
  /\ client.result.kind = "raise"
  /\ client.calls = WriteAttempts
  /\ ~client.io_lock

====
